---- MODULE Spec2Model ----
(***************************************************************************)
(* Usage-analytics ingestion engine of skills-hub                          *)
(* (src-tauri/src/core/codex_analytics.rs over the skill_usage_events and  *)
(* codex_scan_cursors tables of src-tauri/src/core/skill_store.rs).        *)
(*                                                                         *)
(* Text is modelled as a sequence of atoms: an atom is a quote character,  *)
(* a path separator, or a run of other characters.  A command is the       *)
(* sequence of its whitespace-separated tokens, each token such a text.    *)
(***************************************************************************)
EXTENDS Integers, Sequences, FiniteSets, TLC

\* ------------------------------------------------------------------ bounds
\* Largest number of lines all rollout logs hold together.
MaxTotalLines == 2
\* Largest number of rows the usage-event table holds through direct inserts.
MaxDirect == 1

\* --------------------------------------------------------------- constants
MS_PER_DAY == 86400000

\* Absent Option<String> / Option<&str>.
NONE == "<none>"
\* Absent Option<i64>.
NoInt == [some |-> FALSE, v |-> 0]

Some(n) == [some |-> TRUE, v |-> n]

Max(a, b) == IF a >= b THEN a ELSE b

\* ------------------------------------------------------------ environment
\* The rollout logs of the session root, in the lexicographic order of their
\* full paths (the order Vec<PathBuf>::sort gives).
LogOrder == << "2026/01/27/rollout-a.jsonl", "2026/01/28/rollout-b.jsonl" >>

Logs == { LogOrder[i] : i \in 1..Len(LogOrder) }

\* The day directory holding each log, relative to the session root.
DayOf(log) == IF log = LogOrder[1] THEN << "2026", "/", "01", "/", "27" >>
                                   ELSE << "2026", "/", "01", "/", "28" >>

\* A day path that is not traversal-safe.
UnsafeDay == << "..", "/", "other" >>

\* The lists of day paths callers pass to a backfill.
DayInputs == { { DayOf(LogOrder[1]) }, { DayOf(LogOrder[2]) },
               { DayOf(LogOrder[1]), DayOf(LogOrder[2]) },
               { DayOf(LogOrder[1]), UnsafeDay } }

\* Directories present under the skills root, as component sequences.
SkillsDirEntries == { << "s1" >>, << ".system", "inst" >>, << "brainstorming" >> }

\* Paths that exist outside the skills root, as the component sequences
\* that lead to them from it.
OutsideEntries == { << "..", "etc" >>, << "/", "etc" >>,
                    << "..", "..", "etc", "passwd" >> }

\* Rows of the skills table (managed skills): id and name, and with each the
\* tools of its rows in skill_targets.
ManagedSkills == { [id |-> "m1", name |-> << "S1" >>,
                    targets |-> { "codex", "cursor" }] }

\* Repository::discover from a work directory: the git directory of the
\* repository that encloses it (NONE when none does). /repo is a repository
\* with a working tree, /srv/bare.git a bare one.
GitDirOf(workdir) ==
    IF workdir \in { "/repo", "/repo/sub", "/repo/lib/deep" } THEN "/repo/.git"
    ELSE IF workdir \in { "/srv/bare.git", "/srv/bare.git/hooks" }
         THEN "/srv/bare.git"
    ELSE NONE

\* repo.workdir(): the root of the working tree of the repository discovery
\* finds (NONE when it finds none, or a bare one).
GitRootOf(workdir) == IF GitDirOf(workdir) = "/repo/.git" THEN "/repo" ELSE NONE

\* Path::parent
ParentOf(path) ==
    IF path = "/repo/.git" THEN "/repo"
    ELSE IF path = "/srv/bare.git" THEN "/srv"
    ELSE NONE

\* ---------------------------------------------------------- text helpers
IsQuote(a) == a \in { "\"", "'" }

RECURSIVE TrimLeft(_)
TrimLeft(s) == IF s # << >> /\ IsQuote(Head(s)) THEN TrimLeft(Tail(s)) ELSE s

RECURSIVE TrimRight(_)
TrimRight(s) ==
    IF s # << >> /\ IsQuote(s[Len(s)]) THEN TrimRight(SubSeq(s, 1, Len(s) - 1))
    ELSE s

\* str::trim_matches(['"', '\''])
trim_matches(s) == TrimRight(TrimLeft(s))

HasPrefix(s, p) == Len(s) >= Len(p) /\ SubSeq(s, 1, Len(p)) = p

\* str::strip_prefix(p).unwrap_or(s)
strip_prefix_or(s, p) == IF HasPrefix(s, p) THEN SubSeq(s, Len(p) + 1, Len(s)) ELSE s

\* str::to_lowercase on the atoms the model uses.
LowerAtom(a) == IF a = "S1" THEN "s1" ELSE a

to_lowercase(s) == [i \in 1..Len(s) |-> LowerAtom(s[i])]

\* Path::components of a relative or absolute text: the runs between
\* separators, "." and empty runs dropped, a leading separator kept as the
\* root component "/".
RECURSIVE Components(_, _, _)
Components(s, cur, first) ==
    LET flush == IF cur = << >> \/ cur = << "." >> THEN << >> ELSE << cur >>
    IN  IF s = << >> THEN flush
        ELSE IF Head(s) = "/"
             THEN (IF first /\ cur = << >> THEN << << "/" >> >> ELSE flush)
                  \o Components(Tail(s), << >>, FALSE)
             ELSE Components(Tail(s), Append(cur, Head(s)), FALSE)

components(s) == Components(s, << >>, TRUE)

\* A component made of one atom is named by that atom.
CompName(c) == IF Len(c) = 1 THEN c[1] ELSE "<multi>"

CompNames(s) == [i \in 1..Len(components(s)) |-> CompName(components(s)[i])]

\* The arrangements of a set in which each member sorts at or before the
\* next one (members that tie come in either order): what a sort, or ORDER
\* BY, can return.
OrderBy(rows, Before(_, _)) ==
    { s \in [1..Cardinality(rows) -> rows] :
        /\ \A i \in DOMAIN s, j \in DOMAIN s : i # j => s[i] # s[j]
        /\ \A i \in DOMAIN s : i + 1 \in DOMAIN s => Before(s[i], s[i + 1]) }

\* ---------------------------------------------------------- session root
\* The session root itself, and a directory under it that can lose its read
\* permission.
SessionsRoot == "."

\* The paths under the session root, relative to it: their text, and the
\* directories above them that the walk may fail to read.
PathInfo(path) ==
    LET day27 == << "2026", "/", "01", "/", "27", "/" >>
        day28 == << "2026", "/", "01", "/", "28", "/" >>
        text ==
            IF path = "2026/01/27/rollout-a.jsonl"
            THEN day27 \o << "rollout-", "a", ".jsonl" >>
            ELSE IF path = "2026/01/28/rollout-b.jsonl"
            THEN day28 \o << "rollout-", "b", ".jsonl" >>
            ELSE IF path = "rollout-top.jsonl"
            THEN << "rollout-", "top", ".jsonl" >>
            ELSE IF path = "2026/01/27/notes.txt"
            THEN day27 \o << "notes", ".txt" >>
            ELSE IF path = "2026/01/27/rollout-c.json"
            THEN day27 \o << "rollout-", "c", ".json" >>
            ELSE IF path = "2026/01/27/xrollout-d.jsonl"
            THEN day27 \o << "x", "rollout-", "d", ".jsonl" >>
            ELSE IF path = "2026/01/28/rollout-dir.jsonl"
            THEN day28 \o << "rollout-", "dir", ".jsonl" >>
            ELSE IF path = "2026/01/28/rollout-link.jsonl"
            THEN day28 \o << "rollout-", "link", ".jsonl" >>
            ELSE IF path = "2026-x/rollout-f.jsonl"
            THEN << "2026-x", "/", "rollout-", "f", ".jsonl" >>
            ELSE << "locked", "/", "rollout-", "e", ".jsonl" >>
    IN  [text |-> text,
         above |-> IF Head(text) = "locked" THEN { SessionsRoot, "locked" }
                   ELSE { SessionsRoot }]

\* Path::cmp: paths compare component by component, each component in byte
\* order, a path that runs out of components first.
PathLess(a, b) ==
    LET NameOrder ==
            << << "01" >>, << "2026" >>, << "2026-x" >>, << "27" >>, << "28" >>,
               << "locked" >>, << "notes", ".txt" >>,
               << "rollout-", "a", ".jsonl" >>, << "rollout-", "b", ".jsonl" >>,
               << "rollout-", "c", ".json" >>, << "rollout-", "dir", ".jsonl" >>,
               << "rollout-", "e", ".jsonl" >>, << "rollout-", "f", ".jsonl" >>,
               << "rollout-", "link", ".jsonl" >>,
               << "rollout-", "top", ".jsonl" >>,
               << "x", "rollout-", "d", ".jsonl" >> >>
        rank(c) == CHOOSE i \in DOMAIN NameOrder : NameOrder[i] = c
        ca == components(PathInfo(a).text)
        cb == components(PathInfo(b).text)
    IN  \/ /\ Len(ca) < Len(cb)
           /\ \A j \in 1..Len(ca) : ca[j] = cb[j]
        \/ \E i \in 1..Len(ca) :
               /\ i <= Len(cb)
               /\ \A j \in 1..(i - 1) : ca[j] = cb[j]
               /\ rank(ca[i]) < rank(cb[i])

\* ------------------------------------------------------------ log lines
\* A line of a rollout log: whether it can be read as UTF-8 text, whether
\* it is a JSON object, and the fields the reader looks at.
NoTimestamp == [present |-> FALSE, rfc3339 |-> FALSE, unix |-> 0, milli |-> 0]

Timestamp(unix, milli) ==
    [present |-> TRUE, rfc3339 |-> TRUE, unix |-> unix, milli |-> milli]

NoArguments == [present |-> FALSE, json |-> FALSE, hasCommand |-> FALSE,
                command |-> << >>, workdir |-> NONE]

NoPayload == [present |-> FALSE, kind |-> NONE, name |-> NONE,
              arguments |-> NoArguments]

ShellCall(ts, command, workdir) ==
    [utf8 |-> TRUE, json |-> TRUE, timestamp |-> ts,
     payload |-> [present |-> TRUE, kind |-> "function_call",
                  name |-> "shell_command",
                  arguments |-> [present |-> TRUE, json |-> TRUE,
                                 hasCommand |-> TRUE, command |-> command,
                                 workdir |-> workdir]]]

\* {"timestamp": "1970-01-01T00:00:05.000Z", ... use-skill 'superpowers:s1'}
LUse ==
    ShellCall(Timestamp(5, 0),
              << << "superpowers-codex" >>, << "use-skill" >>,
                 << "'", "superpowers:", "s1", "'" >> >>,
              "/work")

\* use-skill of a skill that is not installed under the skills root
LUnknown ==
    ShellCall(Timestamp(5, 0),
              << << "superpowers-codex" >>, << "use-skill" >>, << "nosuch" >> >>,
              "/work")

\* a line holding bytes that are not valid UTF-8
LBad == [utf8 |-> FALSE, json |-> FALSE, timestamp |-> NoTimestamp,
         payload |-> NoPayload]

\* Lines the assistant appends.
LinePool == { LUse, LUnknown, LBad }

\* ------------------------------------------------------------ line parser
NoKey == [some |-> FALSE, key |-> << >>]

RECURSIVE ExtractFrom(_, _)
ExtractFrom(tokens, i) ==
    IF i > Len(tokens) THEN NoKey
    ELSE IF tokens[i] = << "use-skill" >>
         THEN (IF i + 1 > Len(tokens) THEN NoKey
               ELSE [some |-> TRUE, key |-> trim_matches(tokens[i + 1])])
         ELSE ExtractFrom(tokens, i + 1)

\* Variant: the token behind use-skill returned with its quotes.
ExtractKeepsQuotes(command) ==
    IF \E i \in 1..Len(command) : command[i] = << "use-skill" >>
    THEN LET i == CHOOSE j \in 1..Len(command) :
                      /\ command[j] = << "use-skill" >>
                      /\ \A k \in 1..(j - 1) : command[k] # << "use-skill" >>
         IN  IF i + 1 > Len(command) THEN NoKey
             ELSE [some |-> TRUE, key |-> command[i + 1]]
    ELSE NoKey

extract_skill_key_from_command(command) == ExtractFrom(command, 1)

parse_timestamp_ms(timestamp) ==
    IF timestamp.rfc3339 THEN Some(timestamp.unix * 1000 + timestamp.milli)
    ELSE NoInt

NoEvent == [some |-> FALSE, ts_ms |-> 0, skill_key |-> << >>, workdir |-> NONE]

\* Variant: the arguments looked at whatever the type and the name of the
\* payload are.
ParseWithoutGate(line) ==
    IF ~line.json THEN NoEvent
    ELSE IF ~line.payload.present THEN NoEvent
    ELSE IF ~line.payload.arguments.present THEN NoEvent
    ELSE IF ~line.payload.arguments.json THEN NoEvent
    ELSE IF ~line.payload.arguments.hasCommand THEN NoEvent
    ELSE IF ~extract_skill_key_from_command(line.payload.arguments.command).some
         THEN NoEvent
    ELSE IF line.payload.arguments.workdir = NONE THEN NoEvent
    ELSE LET parsed == IF line.timestamp.present
                       THEN parse_timestamp_ms(line.timestamp) ELSE NoInt
         IN  [some |-> TRUE,
              ts_ms |-> IF parsed.some THEN parsed.v ELSE 0,
              skill_key |->
                  extract_skill_key_from_command(line.payload.arguments.command).key,
              workdir |-> line.payload.arguments.workdir]

parse_rollout_line_for_use_skill(line) ==
    IF ~line.json THEN NoEvent
    ELSE IF ~line.payload.present THEN NoEvent
    ELSE IF line.payload.kind # "function_call" THEN NoEvent
    ELSE IF line.payload.name = NONE THEN NoEvent
    ELSE IF line.payload.name # "shell_command" THEN NoEvent
    ELSE IF ~line.payload.arguments.present THEN NoEvent
    ELSE IF ~line.payload.arguments.json THEN NoEvent
    ELSE IF ~line.payload.arguments.hasCommand THEN NoEvent
    ELSE IF ~extract_skill_key_from_command(line.payload.arguments.command).some
         THEN NoEvent
    ELSE IF line.payload.arguments.workdir = NONE THEN NoEvent
    ELSE LET parsed == IF line.timestamp.present
                       THEN parse_timestamp_ms(line.timestamp) ELSE NoInt
         IN  [some |-> TRUE,
              ts_ms |-> IF parsed.some THEN parsed.v ELSE 0,
              skill_key |->
                  extract_skill_key_from_command(line.payload.arguments.command).key,
              workdir |-> line.payload.arguments.workdir]

\* ------------------------------------------------- skill key canonicalizer
\* Variant: every path taken for safe.
IsSafeUnchecked(path) == TRUE

is_safe_relative_path(path) ==
    /\ ~(path # << >> /\ Head(path) = "/")
    /\ \A i \in 1..Len(components(path)) :
          components(path)[i] \notin { << ".." >>, << "/" >> }

is_safe_relative_skill_key(skill_key) == is_safe_relative_path(skill_key)

\* skills_dir.join(key).exists()
SkillExists(key) ==
    CompNames(key) \in (SkillsDirEntries \cup OutsideEntries \cup { << >> })

\* Variant: skills/ behind superpowers: not stripped.
CanonicalizeKeepsInnerPrefix(raw_skill_key) ==
    LET raw0 == trim_matches(raw_skill_key)
        raw  == strip_prefix_or(raw0, << "skills", "/" >>)
        rest == SubSeq(raw, 2, Len(raw))
    IN  IF is_safe_relative_skill_key(raw) /\ SkillExists(raw)
        THEN [some |-> TRUE, key |-> raw]
        ELSE IF ~HasPrefix(raw, << "superpowers:" >>) THEN NoKey
        ELSE IF is_safe_relative_skill_key(rest) /\ SkillExists(rest)
             THEN [some |-> TRUE, key |-> rest]
             ELSE NoKey

canonicalize_codex_skill_key(raw_skill_key) ==
    LET raw0 == trim_matches(raw_skill_key)
        raw  == strip_prefix_or(raw0, << "skills", "/" >>)
        rest0 == SubSeq(raw, 2, Len(raw))
        rest == strip_prefix_or(rest0, << "skills", "/" >>)
    IN  IF is_safe_relative_skill_key(raw) /\ SkillExists(raw)
        THEN [some |-> TRUE, key |-> raw]
        ELSE IF ~HasPrefix(raw, << "superpowers:" >>) THEN NoKey
        ELSE IF is_safe_relative_skill_key(rest) /\ SkillExists(rest)
             THEN [some |-> TRUE, key |-> rest]
             ELSE NoKey

\* The candidates canonicalize_codex_skill_key calls exists() on: `&&`
\* evaluates its right side only when the left side holds.
ExistenceProbes(raw_skill_key) ==
    LET raw0 == trim_matches(raw_skill_key)
        raw  == strip_prefix_or(raw0, << "skills", "/" >>)
        rest0 == SubSeq(raw, 2, Len(raw))
        rest == strip_prefix_or(rest0, << "skills", "/" >>)
    IN  (IF is_safe_relative_skill_key(raw) THEN { raw } ELSE {})
        \cup (IF is_safe_relative_skill_key(raw) /\ SkillExists(raw) THEN {}
              ELSE IF ~HasPrefix(raw, << "superpowers:" >>) THEN {}
              ELSE IF is_safe_relative_skill_key(rest) THEN { rest }
              ELSE {})

\* ------------------------------------------------ project path normalizer
\* Variant: the work directory returned as it is.
NormalizeIdentity(workdir) == workdir

normalize_project_path(workdir) ==
    IF GitDirOf(workdir) = NONE THEN workdir
    ELSE IF GitRootOf(workdir) # NONE THEN GitRootOf(workdir)
    ELSE IF ParentOf(GitDirOf(workdir)) # NONE THEN ParentOf(GitDirOf(workdir))
    ELSE workdir

ProjectModes == { "GitRootOrWorkdir", "Workdir" }

\* ------------------------------------------------------------------ state
VARIABLES
    files,       \* rollout logs under the session root: path -> lines
    unopenable,  \* logs File::open fails on
    events,      \* rows of skill_usage_events
    cursors,     \* rows of codex_scan_cursors: log_path -> last_line
    result,      \* what the last operation was given and what it returned
    clearMark,   \* per log, the lines it held at the last clear (0 after a backfill)
    config,      \* the analytics rows of the settings table
    inflight,    \* per worker thread, the command it runs and how far it is
    origin,      \* the store when the commands in flight were issued
    skills       \* rows of skills, each with its rows of skill_targets

vars == << files, unopenable, events, cursors, result, clearMark,
           config, inflight, origin, skills >>

\* CodexScanStats::default()
ZeroStats == [scanned_files |-> 0, processed_lines |-> 0, new_events |-> 0,
              parse_errors |-> 0, matched_use_skill |-> 0,
              skipped_skill_not_found |-> 0, duplicate_events |-> 0]

NoRow == [tool |-> NONE, skill_key |-> << >>, managed_skill_id |-> NONE,
          ts_ms |-> 0, workdir |-> NONE, project_path |-> NONE,
          log_path |-> NONE, log_line |-> 0, created_at_ms |-> 0]

\* op: the operation; ok: it returned Ok; stats, deleted, inserted: what it
\* returned; days, logs: the day paths a backfill was given and the logs it
\* selected; now_ms, retention_days: what a retention cleanup was given; row:
\* the row a direct insert was given; raw_key, canonical, probed: the key the
\* canonicalizer was given, what it returned and the candidates it looked
\* for under the skills root; line, line_key, event: the line the parser was
\* given, the key found in its command and the event the parser returned;
\* project_mode: the project mode a scan was given; tool, skill_key,
\* since_ts_ms, limit, rows: what a query was given and the rows it returned;
\* rollout_logs: the logs a discovery returned.
NoResult == [op |-> "init", ok |-> TRUE, stats |-> ZeroStats, deleted |-> 0,
             now_ms |-> 0, retention_days |-> 0, days |-> {}, logs |-> {},
             row |-> NoRow, inserted |-> FALSE,
             raw_key |-> << >>, canonical |-> NoKey, probed |-> {},
             line |-> LBad, line_key |-> NoKey, event |-> NoEvent,
             project_mode |-> NONE, tool |-> NONE, skill_key |-> << >>,
             since_ts_ms |-> NoInt, limit |-> 0, rows |-> << >>,
             rollout_logs |-> << >>]

\* get_codex_analytics_config_impl on a settings table without analytics rows
DEFAULT_ANALYTICS_CODEX_ENABLED == FALSE
DEFAULT_ANALYTICS_RETENTION_ENABLED == TRUE
DEFAULT_ANALYTICS_RETENTION_DAYS == 30

DefaultConfig == [enabled |-> DEFAULT_ANALYTICS_CODEX_ENABLED,
                  retention_enabled |-> DEFAULT_ANALYTICS_RETENTION_ENABLED,
                  retention_days |-> DEFAULT_ANALYTICS_RETENTION_DAYS]

\* The threads of the blocking pool that run commands.
Workers == { 1, 2 }

\* A thread that runs no command. pc: the statement the thread is at;
\* rollout_logs, i: the logs of the call and the one being read; cursor,
\* line_no, last_line, stats: the locals of scan_codex_rollout_logs; ok,
\* stats, retention_deleted: what the command returns once pc is "done".
Idle == [pc |-> "idle", op |-> NONE, ok |-> TRUE, now_ms |-> 0,
         rollout_logs |-> << >>, i |-> 0, cursor |-> 0, line_no |-> 0,
         last_line |-> 0, stats |-> ZeroStats, retention_deleted |-> 0]

NoOrigin == [events |-> {}, cursors |-> [l \in {} |-> 0]]

\* --------------------------------------------------------------- the store
SameKey(a, b) ==
    a.tool = b.tool /\ a.log_path = b.log_path /\ a.log_line = b.log_line

\* Variant: a plain INSERT into a table without the UNIQUE constraint.
InsertNoUnique(evs, row) == [events |-> evs \cup { row }, inserted |-> TRUE]

\* Variant: INSERT OR REPLACE, the new row taking the place of the old one.
InsertOrReplace(evs, row) ==
    [events |-> { e \in evs : ~SameKey(e, row) } \cup { row },
     inserted |-> TRUE]

\* Variant: INSERT OR IGNORE whose row count is not looked at, Ok(true)
\* whatever happened.
InsertAlwaysReportsNew(evs, row) ==
    IF \E e \in evs : SameKey(e, row)
    THEN [events |-> evs, inserted |-> TRUE]
    ELSE [events |-> evs \cup { row }, inserted |-> TRUE]

\* INSERT OR IGNORE under UNIQUE(tool, log_path, log_line); Ok(rows > 0)
insert_skill_usage_event(evs, row) ==
    IF \E e \in evs : SameKey(e, row)
    THEN [events |-> evs, inserted |-> FALSE]
    ELSE [events |-> evs \cup { row }, inserted |-> TRUE]

\* Variant: the tool filter left out.
DeleteBeforeAnyTool(evs, tool, ts_ms_exclusive) ==
    { e \in evs : ~(e.ts_ms < ts_ms_exclusive) }

\* Variant: an inclusive comparison, ts_ms <= ?2.
DeleteBeforeInclusive(evs, tool, ts_ms_exclusive) ==
    { e \in evs : ~(e.tool = tool /\ e.ts_ms <= ts_ms_exclusive) }

\* DELETE FROM skill_usage_events WHERE tool = ?1 AND ts_ms < ?2
delete_skill_usage_events_before(evs, tool, ts_ms_exclusive) ==
    { e \in evs : ~(e.tool = tool /\ e.ts_ms < ts_ms_exclusive) }

\* DELETE FROM skill_usage_events WHERE tool = ?1
delete_skill_usage_events_for_tool(evs, tool) ==
    { e \in evs : e.tool # tool }

\* SELECT last_line FROM codex_scan_cursors WHERE log_path = ?1
get_codex_scan_cursor_last_line(curs, log_path) ==
    IF log_path \in DOMAIN curs THEN Some(curs[log_path]) ELSE NoInt

\* Variant: a stored cursor never replaced by a lower one.
UpsertCursorNeverLowers(curs, log_path, last_line) ==
    [l \in (DOMAIN curs) \cup { log_path } |->
        IF l # log_path THEN curs[l]
        ELSE IF l \in DOMAIN curs THEN Max(curs[l], last_line)
        ELSE last_line]

\* INSERT ... ON CONFLICT(log_path) DO UPDATE SET last_line = excluded.last_line
upsert_codex_scan_cursor(curs, log_path, last_line) ==
    [l \in (DOMAIN curs) \cup { log_path } |->
        IF l = log_path THEN last_line ELSE curs[l]]

\* DELETE FROM codex_scan_cursors
clear_codex_scan_cursors(curs) == [l \in {} |-> 0]

\* the lower-cased skill name -> id map built from list_skills()
ManagedIdOf(skill_key) ==
    IF \E s \in skills : to_lowercase(s.name) = to_lowercase(skill_key)
    THEN (CHOOSE s \in skills :
              to_lowercase(s.name) = to_lowercase(skill_key)).id
    ELSE NONE

\* ------------------------------------------------------------ discovery
\* Variant: every file whose name starts with rollout- taken for a log.
IsRolloutNamePrefixOnly(name) == HasPrefix(name, << "rollout-" >>)

\* name.starts_with("rollout-") && name.ends_with(".jsonl")
IsRolloutName(name) ==
    /\ HasPrefix(name, << "rollout-" >>)
    /\ Len(name) >= 1
    /\ name[Len(name)] = ".jsonl"

\* collect_rollout_logs: the walk yields the entries no directory above which
\* fails to be read (none when the root itself is missing or unreadable);
\* the regular files among them that are named like a rollout log are kept
\* and sorted as Path orders them, component by component, each component
\* in byte order.
collect_rollout_logs ==
    LET file_name(path) ==
            LET comps == components(PathInfo(path).text) IN comps[Len(comps)]
        before(a, b) == ~PathLess(b, a)
        \* next to the regular files, a directory and a symbolic link to a
        \* file, both named like a rollout log
        entries == { [path |-> f, kind |-> "file"] : f \in DOMAIN files }
                       \cup { [path |-> "2026/01/28/rollout-dir.jsonl",
                               kind |-> "dir"],
                              [path |-> "2026/01/28/rollout-link.jsonl",
                               kind |-> "symlink"] }
        yielded == { e \in entries : PathInfo(e.path).above \cap unopenable = {} }
        paths == { e.path : e \in { y \in yielded : /\ y.kind = "file"
                                                     /\ IsRolloutName(
                                                            file_name(y.path)) } }
    IN  CHOOSE s \in OrderBy(paths, before) : TRUE

\* Variant: the day paths not validated.
DaysAreSafeUnchecked(selected_days) == TRUE

\* collect_rollout_logs_for_days: an unsafe day path fails the call
DaysAreSafe(selected_days) == \A d \in selected_days : is_safe_relative_path(d)

\* Variant: the selection dropped, every log of the session root taken.
CollectForDaysUnrestricted(selected_days) ==
    SelectSeq(LogOrder, LAMBDA l : l \in DOMAIN files)

collect_rollout_logs_for_days(selected_days) ==
    SelectSeq(LogOrder,
              LAMBDA l : l \in DOMAIN files /\ DayOf(l) \in selected_days)

\* count_lines: Err when the file cannot be opened or a line cannot be read
count_lines(log) ==
    IF log \in unopenable THEN NoInt
    ELSE IF \E i \in 1..Len(files[log]) : ~files[log][i].utf8 THEN NoInt
    ELSE Some(Len(files[log]))

\* --------------------------------------------------------- scan primitive
\* Variant: a call on a skill that is not a managed skill dropped as not found.
ScanLineManagedOnly(acc, log, line_no, line, opts) ==
    LET seen == [acc EXCEPT !.last_line = line_no,
                            !.stats.processed_lines = @ + 1]
        event == parse_rollout_line_for_use_skill(line)
        matched == [seen EXCEPT !.stats.matched_use_skill = @ + 1]
        canon == canonicalize_codex_skill_key(event.skill_key)
        row == [tool |-> "codex",
                skill_key |-> canon.key,
                managed_skill_id |-> ManagedIdOf(canon.key),
                ts_ms |-> IF event.ts_ms > 0 THEN event.ts_ms ELSE opts.now_ms,
                workdir |-> event.workdir,
                project_path |->
                    IF opts.project_mode = "Workdir" THEN event.workdir
                    ELSE normalize_project_path(event.workdir),
                log_path |-> log,
                log_line |-> line_no,
                created_at_ms |-> opts.now_ms]
        ins == insert_skill_usage_event(acc.events, row)
    IN  IF ~line.utf8 THEN [seen EXCEPT !.stats.parse_errors = @ + 1]
        ELSE IF ~event.some THEN seen
        ELSE IF ~canon.some \/ ManagedIdOf(canon.key) = NONE
             THEN [matched EXCEPT !.stats.skipped_skill_not_found = @ + 1]
        ELSE IF ins.inserted
             THEN [matched EXCEPT !.events = ins.events,
                                  !.stats.new_events = @ + 1]
             ELSE [matched EXCEPT !.stats.duplicate_events = @ + 1]

\* Variant: an insert that finds the row present counted nowhere.
ScanLineDuplicatesUncounted(acc, log, line_no, line, opts) ==
    LET seen == [acc EXCEPT !.last_line = line_no,
                            !.stats.processed_lines = @ + 1]
        event == parse_rollout_line_for_use_skill(line)
        matched == [seen EXCEPT !.stats.matched_use_skill = @ + 1]
        canon == canonicalize_codex_skill_key(event.skill_key)
        row == [tool |-> "codex",
                skill_key |-> canon.key,
                managed_skill_id |-> ManagedIdOf(canon.key),
                ts_ms |-> IF event.ts_ms > 0 THEN event.ts_ms ELSE opts.now_ms,
                workdir |-> event.workdir,
                project_path |->
                    IF opts.project_mode = "Workdir" THEN event.workdir
                    ELSE normalize_project_path(event.workdir),
                log_path |-> log,
                log_line |-> line_no,
                created_at_ms |-> opts.now_ms]
        ins == insert_skill_usage_event(acc.events, row)
    IN  IF ~line.utf8 THEN [seen EXCEPT !.stats.parse_errors = @ + 1]
        ELSE IF ~event.some THEN seen
        ELSE IF ~canon.some
             THEN [matched EXCEPT !.stats.skipped_skill_not_found = @ + 1]
        ELSE IF ins.inserted
             THEN [matched EXCEPT !.events = ins.events,
                                  !.stats.new_events = @ + 1]
             ELSE matched

\* One line with line_no > cursor (the body of the loop over reader.lines()).
ScanLine(acc, log, line_no, line, opts) ==
    LET seen == [acc EXCEPT !.last_line = line_no,
                            !.stats.processed_lines = @ + 1]
        event == parse_rollout_line_for_use_skill(line)
        matched == [seen EXCEPT !.stats.matched_use_skill = @ + 1]
        canon == canonicalize_codex_skill_key(event.skill_key)
        row == [tool |-> "codex",
                skill_key |-> canon.key,
                managed_skill_id |-> ManagedIdOf(canon.key),
                ts_ms |-> IF event.ts_ms > 0 THEN event.ts_ms ELSE opts.now_ms,
                workdir |-> event.workdir,
                project_path |->
                    IF opts.project_mode = "Workdir" THEN event.workdir
                    ELSE normalize_project_path(event.workdir),
                log_path |-> log,
                log_line |-> line_no,
                created_at_ms |-> opts.now_ms]
        ins == insert_skill_usage_event(acc.events, row)
    IN  IF ~line.utf8 THEN [seen EXCEPT !.stats.parse_errors = @ + 1]
        ELSE IF ~event.some THEN seen
        ELSE IF ~canon.some
             THEN [matched EXCEPT !.stats.skipped_skill_not_found = @ + 1]
        ELSE IF ins.inserted
             THEN [matched EXCEPT !.events = ins.events,
                                  !.stats.new_events = @ + 1]
             ELSE [matched EXCEPT !.stats.duplicate_events = @ + 1]

\* Variant: line_no < cursor, the line at the cursor read again.
SkipLineExclusive(line_no, cursor) == line_no < cursor

\* Whether the loop skips a line (line_no <= cursor).
SkipLine(line_no, cursor) == line_no <= cursor

\* Variant: the loop over the lines left (break) at a line the parser
\* returns None for.
RECURSIVE ScanLinesStopAtMalformed(_, _, _, _, _)
ScanLinesStopAtMalformed(acc, log, line_no, cursor, opts) ==
    IF line_no > Len(files[log]) THEN acc
    ELSE IF SkipLine(line_no, cursor)
         THEN ScanLinesStopAtMalformed(acc, log, line_no + 1, cursor, opts)
    ELSE IF files[log][line_no].utf8
            /\ ~parse_rollout_line_for_use_skill(files[log][line_no]).some
         THEN ScanLine(acc, log, line_no, files[log][line_no], opts)
    ELSE ScanLinesStopAtMalformed(
             ScanLine(acc, log, line_no, files[log][line_no], opts),
             log, line_no + 1, cursor, opts)

RECURSIVE ScanLines(_, _, _, _, _)
ScanLines(acc, log, line_no, cursor, opts) ==
    IF line_no > Len(files[log]) THEN acc
    ELSE IF SkipLine(line_no, cursor)
         THEN ScanLines(acc, log, line_no + 1, cursor, opts)
         ELSE ScanLines(ScanLine(acc, log, line_no, files[log][line_no], opts),
                        log, line_no + 1, cursor, opts)

\* Variant: the row for a file with nothing new written without the
\* cursor == 0 test.
CursorAfterUnguarded(curs, log, cursor, last_line) ==
    IF last_line > cursor THEN upsert_codex_scan_cursor(curs, log, last_line)
    ELSE upsert_codex_scan_cursor(curs, log, 0)

\* Variant: no row written for a file with nothing new.
CursorAfterOnlyAdvances(curs, log, cursor, last_line) ==
    IF last_line > cursor THEN upsert_codex_scan_cursor(curs, log, last_line)
    ELSE curs

\* The cursor write that ends a file.
CursorAfter(curs, log, cursor, last_line) ==
    IF last_line > cursor THEN upsert_codex_scan_cursor(curs, log, last_line)
    ELSE IF cursor = 0 THEN upsert_codex_scan_cursor(curs, log, 0)
    ELSE curs

\* Variant: a log shorter than its stored cursor read from its first line.
StoredCursorUnlessShrunk(curs, log) ==
    IF /\ get_codex_scan_cursor_last_line(curs, log).some
       /\ get_codex_scan_cursor_last_line(curs, log).v <= Len(files[log])
    THEN get_codex_scan_cursor_last_line(curs, log).v ELSE 0

\* Variant: the stored cursor not consulted.
StoredCursorIgnored(curs, log) == 0

\* get_codex_scan_cursor_last_line(..)?.unwrap_or(0)
StoredCursor(curs, log) ==
    IF get_codex_scan_cursor_last_line(curs, log).some
    THEN get_codex_scan_cursor_last_line(curs, log).v ELSE 0

\* Variant: a cursor row written for a log that could not be opened.
ScanLogUnopenedMarked(acc, log, opts) ==
    LET cursor == StoredCursor(acc.cursors, log)
        read == ScanLines([acc EXCEPT !.last_line = cursor], log, 1, cursor, opts)
    IN  IF log \in unopenable
        THEN [acc EXCEPT !.stats.parse_errors = @ + 1,
                         !.cursors = upsert_codex_scan_cursor(@, log, cursor)]
        ELSE [read EXCEPT !.cursors =
                  CursorAfter(acc.cursors, log, cursor, read.last_line)]

\* One log of the loop over rollout_logs.
ScanLog(acc, log, opts) ==
    LET cursor == StoredCursor(acc.cursors, log)
        read == ScanLines([acc EXCEPT !.last_line = cursor], log, 1, cursor, opts)
    IN  IF log \in unopenable
        THEN [acc EXCEPT !.stats.parse_errors = @ + 1]
        ELSE [read EXCEPT !.cursors =
                  CursorAfter(acc.cursors, log, cursor, read.last_line)]

RECURSIVE ScanLogs(_, _, _, _)
ScanLogs(acc, rollout_logs, i, opts) ==
    IF i > Len(rollout_logs) THEN acc
    ELSE ScanLogs(ScanLog(acc, rollout_logs[i], opts), rollout_logs, i + 1, opts)

scan_codex_rollout_logs(evs, curs, opts, rollout_logs) ==
    ScanLogs([events |-> evs, cursors |-> curs, last_line |-> 0,
              stats |-> [ZeroStats EXCEPT !.scanned_files = Len(rollout_logs)]],
             rollout_logs, 1, opts)

\* Variant: the reset loop left out.
ResetCursorsSkipped(curs, rollout_logs, i) == curs

\* The reset loop of a backfill: cursor 0 for every selected log.
RECURSIVE ResetCursors(_, _, _)
ResetCursors(curs, rollout_logs, i) ==
    IF i > Len(rollout_logs) THEN curs
    ELSE ResetCursors(upsert_codex_scan_cursor(curs, rollout_logs[i], 0),
                      rollout_logs, i + 1)

\* The cursor a clear stores for a log.
EofCursor(log) == IF count_lines(log).some THEN count_lines(log).v ELSE 0

RECURSIVE EofLoop(_, _, _)
EofLoop(curs, rollout_logs, i) ==
    IF i > Len(rollout_logs) THEN curs
    ELSE EofLoop(upsert_codex_scan_cursor(curs, rollout_logs[i],
                                          EofCursor(rollout_logs[i])),
                 rollout_logs, i + 1)

set_codex_cursors_to_eof(curs) ==
    EofLoop(clear_codex_scan_cursors(curs), collect_rollout_logs, 1)

\* The threshold of a retention cleanup (values stay far from the i64 range,
\* where the saturating operations are the plain ones).
RetentionThreshold(retention_days, now_ms) ==
    now_ms - Max(retention_days, 0) * MS_PER_DAY

\* ------------------------------------------------ commands, by statement
\* A command runs on a thread of the blocking pool and reaches the store one
\* statement at a time, each statement on a connection of its own. What a
\* thread does between two statements (reading lines that lead to no insert,
\* counting) is taken together with the statement before it.

\* use-skill of an installed skill on a line without a timestamp
LUseNoTimestamp ==
    ShellCall(NoTimestamp,
              << << "superpowers-codex" >>, << "use-skill" >>, << "s1" >> >>,
              "/work")

\* Lines of the logs the commands run over.
CommandLinePool == { LUseNoTimestamp }

\* The settings the commands find.
CommandConfigs ==
    { DefaultConfig,
      [enabled |-> TRUE, retention_enabled |-> FALSE, retention_days |-> 0],
      [enabled |-> TRUE, retention_enabled |-> TRUE, retention_days |-> 0] }

\* now_ms(): the clock has moved on by the time the next command is issued.
ClockAt(issued) == 10000 + issued

Issued == Cardinality({ w \in Workers : inflight[w].pc # "idle" })

\* The positions at which a thread is about to run a statement of the store.
StatementPcs == { "reset", "list", "cursor", "insert", "upsert", "retain",
                  "delete_events", "delete_cursors", "eof" }

OptsOf(st) == [now_ms |-> st.now_ms, project_mode |-> "GitRootOrWorkdir"]

LocalAcc(st, evs) ==
    [events |-> evs, cursors |-> << >>, last_line |-> st.last_line,
     stats |-> st.stats]

\* The line gets as far as insert_skill_usage_event.
ReachesInsert(line) ==
    /\ line.utf8
    /\ parse_rollout_line_for_use_skill(line).some
    /\ canonicalize_codex_skill_key(
           parse_rollout_line_for_use_skill(line).skill_key).some

\* The command returns: of its locals the record keeps the logs it went over.
Returned(st) ==
    [Idle EXCEPT !.pc = "done", !.op = st.op, !.ok = st.ok,
                 !.now_ms = st.now_ms, !.rollout_logs = st.rollout_logs,
                 !.stats = st.stats,
                 !.retention_deleted = st.retention_deleted]

\* Ok(stats) of the scan: the command goes on to the retention cleanup.
AfterLogs(st) ==
    IF config.retention_enabled
    THEN [st EXCEPT !.pc = "retain", !.i = 0]
    ELSE Returned(st)

\* The next turn of the loop over rollout_logs.
NextLog(st) ==
    IF st.i + 1 > Len(st.rollout_logs)
    THEN AfterLogs([st EXCEPT !.cursor = 0, !.line_no = 0, !.last_line = 0])
    ELSE [st EXCEPT !.i = @ + 1, !.pc = "cursor", !.cursor = 0,
                    !.line_no = 0, !.last_line = 0]

\* The end of the loop over the lines of a log.
AfterLines(st) ==
    IF st.last_line > st.cursor \/ st.cursor = 0
    THEN [st EXCEPT !.pc = "upsert"] ELSE NextLog(st)

\* The loop over the lines of a log, up to the next line that is inserted.
RECURSIVE ReadAhead(_, _)
ReadAhead(st, line_no) ==
    LET log == st.rollout_logs[st.i]
        r == ScanLine(LocalAcc(st, {}), log, line_no, files[log][line_no],
                      OptsOf(st))
    IN  IF line_no > Len(files[log]) THEN AfterLines(st)
        ELSE IF SkipLine(line_no, st.cursor) THEN ReadAhead(st, line_no + 1)
        ELSE IF ReachesInsert(files[log][line_no])
             THEN [st EXCEPT !.pc = "insert", !.line_no = line_no]
        ELSE ReadAhead([st EXCEPT !.last_line = r.last_line, !.stats = r.stats],
                       line_no + 1)

\* A statement returned Err and `?` returned it from the command: no
\* statistics reach the caller.
Aborted(st) ==
    [Idle EXCEPT !.pc = "done", !.op = st.op, !.ok = FALSE,
                 !.now_ms = st.now_ms, !.rollout_logs = st.rollout_logs,
                 !.i = IF st.pc \in { "cursor", "insert", "upsert" } THEN st.i
                       ELSE 0]

\* ----------------------------------------------------------------- inputs
\* Values the callers pass as now_ms.
Nows == { 10000 }

\* Project modes the callers pass (the configured default).
ScanModes == { "GitRootOrWorkdir" }

RetentionDaysInputs == { 0, 1 }

\* Rows a caller inserts directly through the store.
DirectRow(tool, ts_ms) ==
    [tool |-> tool, skill_key |-> << "my-skill" >>, managed_skill_id |-> NONE,
     ts_ms |-> ts_ms, workdir |-> "/workdir", project_path |-> "/workdir",
     log_path |-> LogOrder[1], log_line |-> 1, created_at_ms |-> 1]

DirectRows == { DirectRow("codex", 10000), DirectRow("cursor", 1) }

LinesOf(log) == IF log \in DOMAIN files THEN Len(files[log]) ELSE 0

RECURSIVE TotalLinesFrom(_)
TotalLinesFrom(i) ==
    IF i > Len(LogOrder) THEN 0 ELSE LinesOf(LogOrder[i]) + TotalLinesFrom(i + 1)

TotalLines == TotalLinesFrom(1)

\* ------------------------------------------------------------------- Init
Init ==
    /\ files = [l \in {} |-> << >>]
    /\ unopenable = {}
    /\ events = {}
    /\ cursors = [l \in {} |-> 0]
    /\ result = NoResult
    /\ clearMark = [l \in Logs |-> 0]
    /\ config = DefaultConfig
    /\ inflight = [w \in Workers |-> Idle]
    /\ origin = NoOrigin
    /\ skills = ManagedSkills

\* ---------------------------------------------------------------- actions
\* The assistant starts a session: a new, empty rollout log appears.
CreateLog ==
    \E log \in Logs \ DOMAIN files :
        /\ files' = [l \in (DOMAIN files) \cup { log } |->
                        IF l = log THEN << >> ELSE files[l]]
        /\ result' = [NoResult EXCEPT !.op = "create"]
        /\ UNCHANGED << skills, config, inflight, origin, unopenable, events, cursors, clearMark >>

\* The assistant appends one whole line to a rollout log.
AppendLine ==
    \E log \in DOMAIN files, line \in LinePool :
        /\ TotalLines < MaxTotalLines
        /\ files' = [files EXCEPT ![log] = Append(@, line)]
        /\ result' = [NoResult EXCEPT !.op = "append"]
        /\ UNCHANGED << skills, config, inflight, origin, unopenable, events, cursors, clearMark >>

\* scan_codex_sessions_dir
Scan ==
    \E now \in Nows, mode \in ScanModes :
        LET opts == [now_ms |-> now, project_mode |-> mode]
            r == scan_codex_rollout_logs(events, cursors, opts, collect_rollout_logs)
        IN  /\ events' = r.events
            /\ cursors' = r.cursors
            /\ result' = [NoResult EXCEPT !.op = "scan", !.stats = r.stats]
            /\ UNCHANGED << skills, config, inflight, origin, files, unopenable, clearMark >>

\* backfill_codex_session_days
Backfill ==
    \E now \in Nows, mode \in ScanModes, days \in DayInputs :
        LET opts == [now_ms |-> now, project_mode |-> mode]
            rollout_logs == collect_rollout_logs_for_days(days)
            r == scan_codex_rollout_logs(events,
                                         ResetCursors(cursors, rollout_logs, 1),
                                         opts, rollout_logs)
        IN  IF ~DaysAreSafe(days)
            THEN /\ result' = [NoResult EXCEPT !.op = "backfill", !.ok = FALSE,
                                               !.days = days]
                 /\ UNCHANGED << skills, config, inflight, origin, files, unopenable, events, cursors, clearMark >>
            ELSE /\ events' = r.events
                 /\ cursors' = r.cursors
                 /\ result' = [NoResult EXCEPT
                                   !.op = "backfill", !.stats = r.stats,
                                   !.days = days,
                                   !.logs = { rollout_logs[i] :
                                              i \in 1..Len(rollout_logs) }]
                 /\ clearMark' = [l \in Logs |-> 0]
                 /\ UNCHANGED << skills, config, inflight, origin, files, unopenable >>

\* clear_codex_analytics
ClearOp ==
    \E now \in Nows :
        /\ events' = delete_skill_usage_events_for_tool(events, "codex")
        /\ cursors' = set_codex_cursors_to_eof(cursors)
        /\ result' = [NoResult EXCEPT !.op = "clear",
                                      !.deleted = Cardinality(events \ events')]
        /\ UNCHANGED << skills, config, inflight, origin, files, unopenable >>

Clear == ClearOp /\ UNCHANGED clearMark

\* The same operation, with the lines each log holds remembered.
ClearMarked == ClearOp /\ clearMark' = [l \in Logs |-> LinesOf(l)]

\* Variant: the cleanup also forgets how far the logs were read.
RetentionWipesCursors ==
    \E now \in Nows, retention_days \in RetentionDaysInputs :
        /\ events' = delete_skill_usage_events_before(
                         events, "codex",
                         RetentionThreshold(retention_days, now))
        /\ cursors' = clear_codex_scan_cursors(cursors)
        /\ result' = [NoResult EXCEPT !.op = "retention",
                                      !.now_ms = now,
                                      !.retention_days = retention_days,
                                      !.deleted = Cardinality(events \ events')]
        /\ UNCHANGED << skills, config, inflight, origin, files, unopenable,
                        clearMark >>

\* cleanup_old_codex_events
Retention ==
    \E now \in Nows, retention_days \in RetentionDaysInputs :
        /\ events' = delete_skill_usage_events_before(
                         events, "codex",
                         RetentionThreshold(retention_days, now))
        /\ result' = [NoResult EXCEPT !.op = "retention",
                                      !.now_ms = now,
                                      !.retention_days = retention_days,
                                      !.deleted = Cardinality(events \ events')]
        /\ UNCHANGED << skills, config, inflight, origin, files, unopenable, cursors, clearMark >>

\* SkillStore::insert_skill_usage_event called directly
InsertEvent ==
    \E row \in DirectRows :
        /\ \/ Cardinality({ e \in events : e.workdir = "/workdir" }) < MaxDirect
           \/ \E e \in events : SameKey(e, row)
        /\ events' = insert_skill_usage_event(events, row).events
        /\ result' = [NoResult EXCEPT
                          !.op = "insert", !.row = row,
                          !.inserted = insert_skill_usage_event(events, row).inserted]
        /\ UNCHANGED << skills, config, inflight, origin, files, unopenable, cursors, clearMark >>

Next ==
    \/ CreateLog
    \/ AppendLine
    \/ Scan
    \/ Backfill
    \/ Clear
    \/ Retention
    \/ InsertEvent

Spec == Init /\ [][Next]_vars

\* The same program, with the history variable clearMark kept.
NextMarked ==
    \/ CreateLog
    \/ AppendLine
    \/ Scan
    \/ Backfill
    \/ ClearMarked
    \/ Retention
    \/ InsertEvent

SpecMarked == Init /\ [][NextMarked]_vars

\* ------------------------------------------------- reading the logs: actions
\* a line that is not JSON
LNotJson == [utf8 |-> TRUE, json |-> FALSE, timestamp |-> NoTimestamp,
             payload |-> NoPayload]

\* a JSON object without a payload
LNoPayload == [utf8 |-> TRUE, json |-> TRUE, timestamp |-> Timestamp(5, 0),
               payload |-> NoPayload]

\* the use-skill command in a payload of type "message"
LWrongType == [LUse EXCEPT !.payload.kind = "message"]

\* the use-skill command in a call of the function "apply_patch"
LWrongName == [LUse EXCEPT !.payload.name = "apply_patch"]

\* Malformed lines the assistant (or a crash in the middle of a write) leaves.
MalformedPool == { LNotJson, LNoPayload, LWrongType, LWrongName }

\* A malformed line is appended to a rollout log.
AppendMalformed ==
    \E log \in DOMAIN files, line \in MalformedPool :
        /\ TotalLines < MaxTotalLines
        /\ files' = [files EXCEPT ![log] = Append(@, line)]
        /\ result' = [NoResult EXCEPT !.op = "append"]
        /\ UNCHANGED << skills, config, inflight, origin, unopenable, events, cursors,
                        clearMark >>

\* A rollout log becomes unreadable for the application (its permissions
\* change): File::open fails on it from now on.
DenyOpen ==
    \E log \in DOMAIN files \ unopenable :
        /\ unopenable' = unopenable \cup { log }
        /\ result' = [NoResult EXCEPT !.op = "deny"]
        /\ UNCHANGED << skills, config, inflight, origin, files, events, cursors,
                        clearMark >>

\* The log becomes readable again.
AllowOpen ==
    \E log \in unopenable :
        /\ unopenable' = unopenable \ { log }
        /\ result' = [NoResult EXCEPT !.op = "allow"]
        /\ UNCHANGED << skills, config, inflight, origin, files, events, cursors,
                        clearMark >>

\* Scans over logs that hold malformed lines or cannot be opened.
NextReads ==
    \/ CreateLog
    \/ AppendLine
    \/ AppendMalformed
    \/ DenyOpen
    \/ AllowOpen
    \/ Scan

SpecReads == Init /\ [][NextReads]_vars

\* ------------------------------------------------- the canonicalizer alone
\* Longest raw skill key, in atoms.
MaxKeyLen == 4

KeyAtoms == { "'", "skills", "/", "superpowers:", "s1", "..", "etc" }

\* The raw keys of the examples of the documentation.
ExampleKeys == { << "superpowers:", "brainstorming" >>,
                 << "..", "/", "..", "/", "etc", "/", "passwd" >> }

\* Raw skill keys a use-skill command can carry.
RawKeys == UNION { [1..n -> KeyAtoms] : n \in 1..MaxKeyLen } \cup ExampleKeys

\* A session whose one log holds one use-skill call with the raw key.
InitKeys ==
    /\ \E k \in RawKeys :
          /\ files = [l \in { LogOrder[1] } |->
                         << ShellCall(Timestamp(5, 0),
                                      << << "superpowers-codex" >>,
                                         << "use-skill" >>, k >>,
                                      "/work") >>]
          /\ result = [NoResult EXCEPT !.op = "key", !.raw_key = k]
    /\ unopenable = {}
    /\ events = {}
    /\ cursors = [l \in {} |-> 0]
    /\ clearMark = [l \in Logs |-> 0]
    /\ config = DefaultConfig
    /\ inflight = [w \in Workers |-> Idle]
    /\ origin = NoOrigin
    /\ skills = ManagedSkills

\* canonicalize_codex_skill_key applied to the raw key
Canonicalize ==
    /\ result.op = "key"
    /\ result' = [result EXCEPT
                      !.op = "canonicalized",
                      !.canonical = canonicalize_codex_skill_key(result.raw_key),
                      !.probed = ExistenceProbes(result.raw_key)]
    /\ UNCHANGED << skills, files, unopenable, events, cursors, clearMark, config,
                    inflight, origin >>

NextKeys ==
    \/ Canonicalize
    \/ Scan

SpecKeys == InitKeys /\ [][NextKeys]_vars

\* ------------------------------------------------- the line parser alone
\* Largest number of tokens of a command.
MaxTokens == 3

\* The lines the parser is given. Timestamps: none, one that is not RFC 3339,
\* 1970-01-01T00:00:05.007Z and the epoch itself, 1970-01-01T00:00:00Z.
\* CallLines: shell_command calls with every command, timestamp and workdir.
\* GateLines: the use-skill call of LUse under every type and name of payload
\* and every shape of arguments (a function_call_output or a message that
\* holds the text of the call among them).
LineInputs ==
    LET TimestampPool ==
            { NoTimestamp,
              [present |-> TRUE, rfc3339 |-> FALSE, unix |-> 0, milli |-> 0],
              Timestamp(5, 7), Timestamp(0, 0) }
        TokenPool == { << "superpowers-codex" >>, << "use-skill" >>,
                       << "'", "s1", "'" >>, << "\"", "use-skill", "\"" >> }
        Commands == UNION { [1..n -> TokenPool] : n \in 0..MaxTokens }
        CallLines ==
            { ShellCall(ts, command, workdir) :
                ts \in TimestampPool, command \in Commands,
                workdir \in { NONE, "/work" } }
        GateLines ==
            { [LUse EXCEPT !.payload.kind = kind, !.payload.name = name,
                           !.payload.arguments = arguments] :
                kind \in { "function_call", "function_call_output", "message" },
                name \in { NONE, "shell_command", "apply_patch" },
                arguments \in { LUse.payload.arguments, NoArguments,
                                [LUse.payload.arguments EXCEPT !.json = FALSE],
                                [LUse.payload.arguments EXCEPT
                                     !.hasCommand = FALSE] } }
    IN  CallLines \cup GateLines \cup { LNotJson, LNoPayload }

\* A session whose one log holds one line.
InitLines ==
    /\ \E line \in LineInputs :
          /\ files = [l \in { LogOrder[1] } |-> << line >>]
          /\ result = [NoResult EXCEPT !.op = "line", !.line = line]
    /\ unopenable = {}
    /\ events = {}
    /\ cursors = [l \in {} |-> 0]
    /\ clearMark = [l \in Logs |-> 0]
    /\ config = DefaultConfig
    /\ inflight = [w \in Workers |-> Idle]
    /\ origin = NoOrigin
    /\ skills = ManagedSkills

\* extract_skill_key_from_command applied to the command of the line
ExtractKey ==
    /\ result.op = "line"
    /\ result.line.payload.arguments.hasCommand
    /\ result' = [result EXCEPT
                      !.op = "extracted",
                      !.line_key = extract_skill_key_from_command(
                                       result.line.payload.arguments.command)]
    /\ UNCHANGED << skills, files, unopenable, events, cursors, clearMark, config,
                    inflight, origin >>

\* parse_rollout_line_for_use_skill applied to the line
ParseLine ==
    /\ result.op = "line"
    /\ result' = [result EXCEPT
                      !.op = "parsed",
                      !.event = parse_rollout_line_for_use_skill(result.line)]
    /\ UNCHANGED << skills, files, unopenable, events, cursors, clearMark, config,
                    inflight, origin >>

NextLines ==
    \/ ExtractKey
    \/ ParseLine
    \/ Scan

SpecLines == InitLines /\ [][NextLines]_vars

\* ------------------------------------------------- project normalization
\* Sessions whose logs hold use-skill calls of an installed skill from work
\* directories outside every repository, in two subdirectories of one
\* repository and in a bare one.
InitProjects ==
    /\ LET ProjectLinePool ==
               { ShellCall(Timestamp(5, 0),
                           << << "superpowers-codex" >>, << "use-skill" >>,
                              << "s1" >> >>,
                           workdir) :
                   workdir \in { "/work", "/repo/sub", "/repo/lib/deep",
                                 "/srv/bare.git/hooks" } }
       IN  files \in { f \in [Logs -> UNION { [1..n -> ProjectLinePool] :
                                                  n \in 0..MaxTotalLines }] :
                          Len(f[LogOrder[1]]) + Len(f[LogOrder[2]])
                              <= MaxTotalLines }
    /\ unopenable = {}
    /\ events = {}
    /\ cursors = [l \in {} |-> 0]
    /\ result = NoResult
    /\ clearMark = [l \in Logs |-> 0]
    /\ config = DefaultConfig
    /\ inflight = [w \in Workers |-> Idle]
    /\ origin = NoOrigin
    /\ skills = ManagedSkills

\* scan_codex_sessions_dir under either project mode
ScanProjects ==
    \E now \in Nows, mode \in ProjectModes :
        LET opts == [now_ms |-> now, project_mode |-> mode]
            r == scan_codex_rollout_logs(events, cursors, opts, collect_rollout_logs)
        IN  /\ events' = r.events
            /\ cursors' = r.cursors
            /\ result' = [NoResult EXCEPT !.op = "scan", !.stats = r.stats,
                                          !.project_mode = mode]
            /\ UNCHANGED << skills, config, inflight, origin, files, unopenable,
                            clearMark >>

NextProjects ==
    \/ ScanProjects
    \/ Clear

SpecProjects == InitProjects /\ [][NextProjects]_vars

\* --------------------------------------------------------------- settings
\* set_codex_analytics_config: the settings are read, the new ones stored
\* with retention_days clamped to 0..MAX_ANALYTICS_RETENTION_DAYS, and when
\* analytics goes from disabled to enabled the cursors are set to the end
\* of the logs.
SetConfig ==
    \E input \in [enabled : BOOLEAN, retention_enabled : BOOLEAN,
                   retention_days : { -1, 30 }] :
        LET prev == config
            normalized ==
                [input EXCEPT !.retention_days =
                    IF @ < 0 THEN 0 ELSE IF @ > 3650 THEN 3650 ELSE @]
        IN  /\ config' = normalized
            /\ cursors' = IF ~prev.enabled /\ normalized.enabled
                          THEN set_codex_cursors_to_eof(cursors)
                          ELSE cursors
            /\ result' = [NoResult EXCEPT !.op = "set_config"]
            /\ UNCHANGED << skills, inflight, origin, files, unopenable, events,
                            clearMark >>

\* The settings saved while the logs grow and are scanned.
NextConfig ==
    \/ CreateLog
    \/ AppendLine
    \/ Scan
    \/ SetConfig

SpecConfig == Init /\ [][NextConfig]_vars

\* ------------------------------------------------------ cursors and files
\* A store without events whose cursors stand anywhere against the logs: a
\* log after a clear has its cursor at its end, and from then on it grows,
\* shrinks (it is truncated or written anew) or goes away and comes back.
InitCursors ==
    /\ files \in { f \in [Logs -> UNION { [1..n -> LinePool] :
                                               n \in 0..MaxTotalLines }] :
                       Len(f[LogOrder[1]]) + Len(f[LogOrder[2]])
                           <= MaxTotalLines }
    /\ unopenable = {}
    /\ events = {}
    /\ cursors \in UNION { [known -> 0..MaxTotalLines] : known \in SUBSET Logs }
    /\ result = NoResult
    /\ clearMark = [l \in Logs |-> 0]
    /\ config = DefaultConfig
    /\ inflight = [w \in Workers |-> Idle]
    /\ origin = NoOrigin
    /\ skills = ManagedSkills

\* Scans over logs that cannot always be opened.
NextCursors ==
    \/ DenyOpen
    \/ AllowOpen
    \/ Scan

SpecCursors == InitCursors /\ [][NextCursors]_vars

\* --------------------------------------------------------- managed skills
\* Variant: the events of a deleted skill go with it.
DeleteSkillCascade ==
    \E skill_id \in { "m1", "m9" } :
        /\ skills' = { s \in skills : s.id # skill_id }
        /\ events' = { e \in events : e.managed_skill_id # skill_id }
        /\ result' = [NoResult EXCEPT !.op = "delete_skill"]
        /\ UNCHANGED << config, inflight, origin, files, unopenable, cursors,
                        clearMark >>

\* delete_skill: DELETE FROM skills WHERE id = ?1 on a connection that
\* enforces foreign keys. The skill's rows in skill_targets go with it (ON
\* DELETE CASCADE); its events stay, their managed_skill_id set to NULL (ON
\* DELETE SET NULL). An id without a row deletes nothing.
DeleteSkill ==
    \E skill_id \in { "m1", "m9" } :
        /\ skills' = { s \in skills : s.id # skill_id }
        /\ events' = { [e EXCEPT !.managed_skill_id =
                                     IF @ = skill_id THEN NONE ELSE @] :
                         e \in events }
        /\ result' = [NoResult EXCEPT !.op = "delete_skill"]
        /\ UNCHANGED << config, inflight, origin, files, unopenable, cursors,
                        clearMark >>

NextSkills ==
    \/ CreateLog
    \/ AppendLine
    \/ Scan
    \/ Backfill
    \/ Clear
    \/ Retention
    \/ DeleteSkill

SpecSkills == Init /\ [][NextSkills]_vars

\* ----------------------------------------------------------- log discovery
\* The session root holds any of eight regular files, one line each, next
\* to a directory and a symbolic link named like rollout logs; the root
\* itself, or the directory "locked", may be missing or unreadable.
InitWalk ==
    /\ \E present \in SUBSET { "2026/01/27/rollout-a.jsonl",
                                "2026/01/28/rollout-b.jsonl",
                                "rollout-top.jsonl",
                                "2026/01/27/notes.txt",
                                "2026/01/27/rollout-c.json",
                                "2026/01/27/xrollout-d.jsonl",
                                "2026-x/rollout-f.jsonl",
                                "locked/rollout-e.jsonl" } :
           files = [f \in present |-> << LUse >>]
    /\ unopenable \in SUBSET { SessionsRoot, "locked" }
    /\ events = {}
    /\ cursors = [l \in {} |-> 0]
    /\ result = NoResult
    /\ clearMark = [l \in Logs |-> 0]
    /\ config = DefaultConfig
    /\ inflight = [w \in Workers |-> Idle]
    /\ origin = NoOrigin
    /\ skills = ManagedSkills

\* collect_rollout_logs on the session root
Discover ==
    /\ result' = [NoResult EXCEPT !.op = "discover",
                                  !.rollout_logs = collect_rollout_logs]
    /\ UNCHANGED << skills, config, inflight, origin, files, unopenable,
                    events, cursors, clearMark >>

NextWalk ==
    \/ Discover
    \/ Scan

SpecWalk == InitWalk /\ [][NextWalk]_vars

\* ---------------------------------------------------- aggregation queries
\* Largest number of rows of skill_usage_events the queries run over.
MaxEvents == 3

\* The place of a skill name, and of a project path, in the BINARY collation
\* (byte order: "S1" < "brainstorming" < "s1").
NameRank(name) ==
    IF name = << "S1" >> THEN 1 ELSE IF name = << "brainstorming" >> THEN 2 ELSE 3

PathRank(path) == IF path = "/repo" THEN 1 ELSE IF path = "/srv" THEN 2 ELSE 3

\* Variant: ordered by name alone.
LeaderboardBeforeByName(a, b) == NameRank(a.skill_name) <= NameRank(b.skill_name)

\* ORDER BY calls DESC, last_ts_ms DESC, skill_name ASC
LeaderboardBefore(a, b) ==
    \/ a.calls > b.calls
    \/ /\ a.calls = b.calls
       /\ \/ a.last_ts_ms > b.last_ts_ms
          \/ /\ a.last_ts_ms = b.last_ts_ms
             /\ NameRank(a.skill_name) <= NameRank(b.skill_name)

\* Variant: COALESCE(t.tools, 0) for every key.
ToolsOfJoinOnly(managed_skill_id, skls) ==
    IF \E m \in skls : m.id = managed_skill_id
    THEN Cardinality((CHOOSE m \in skls : m.id = managed_skill_id).targets)
    ELSE 0

\* CASE WHEN agg.managed_skill_id IS NULL THEN 1 ELSE COALESCE(t.tools, 0) END
ToolsOf(managed_skill_id, skls) ==
    IF managed_skill_id = NONE THEN 1
    ELSE IF \E m \in skls : m.id = managed_skill_id
         THEN Cardinality((CHOOSE m \in skls : m.id = managed_skill_id).targets)
         ELSE 0

\* The results the leaderboard query can return.
get_skill_usage_leaderboard(evs, skls, tool, since_ts_ms, limit) ==
    LET \* WHERE tool = ?1 AND (?2 IS NULL OR ts_ms >= ?2)
        sel == { e \in evs : /\ e.tool = tool
                             /\ ~since_ts_ms.some \/ e.ts_ms >= since_ts_ms.v }
        group(k) == { e \in sel : e.skill_key = k }
        \* COALESCE(MAX(ts_ms), 0)
        max_ts(g) == IF g = {} THEN 0
                     ELSE CHOOSE t \in { e.ts_ms : e \in g } :
                              \A e \in g : e.ts_ms <= t
        \* LIMIT ?3, after limit.max(0)
        take(s) == SubSeq(s, 1, IF Max(limit, 0) < Len(s) THEN Max(limit, 0)
                                ELSE Len(s))
        ids(k) == { e.managed_skill_id : e \in group(k) } \ { NONE }
        \* MIN(managed_skill_id): NULLs are left out
        min_id(k) == IF ids(k) = {} THEN NONE
                     ELSE CHOOSE i \in ids(k) :
                              \A j \in ids(k) : NameRank(<< i >>) <= NameRank(<< j >>)
        agg == { [skill_id |-> k,
                  skill_name |->
                      IF \E m \in skls : m.id = min_id(k)
                      THEN (CHOOSE m \in skls : m.id = min_id(k)).name
                      ELSE k,
                  calls |-> Cardinality(group(k)),
                  projects |-> Cardinality({ e.project_path : e \in group(k) }),
                  tools |-> ToolsOf(min_id(k), skls),
                  last_ts_ms |-> max_ts(group(k))] :
                 k \in { e.skill_key : e \in sel } }
    IN  { take(s) : s \in OrderBy(agg, LeaderboardBefore) }

\* ORDER BY calls DESC, last_ts_ms DESC, project_path ASC
ProjectBefore(a, b) ==
    \/ a.calls > b.calls
    \/ /\ a.calls = b.calls
       /\ \/ a.last_ts_ms > b.last_ts_ms
          \/ /\ a.last_ts_ms = b.last_ts_ms
             /\ PathRank(a.project_path) <= PathRank(b.project_path)

\* Variant: the per-project query without its since filter.
UsageByProjectAllTime(evs, tool, skill_key, since_ts_ms) ==
    LET sel == { e \in evs : e.tool = tool /\ e.skill_key = skill_key }
        group(p) == { e \in sel : e.project_path = p }
        max_ts(g) == IF g = {} THEN 0
                     ELSE CHOOSE t \in { e.ts_ms : e \in g } :
                              \A e \in g : e.ts_ms <= t
        agg == { [project_path |-> p,
                  calls |-> Cardinality(group(p)),
                  last_ts_ms |-> max_ts(group(p))] :
                 p \in { e.project_path : e \in sel } }
    IN  OrderBy(agg, ProjectBefore)

\* The results the per-project query can return.
get_skill_usage_by_project(evs, tool, skill_key, since_ts_ms) ==
    LET sel == { e \in evs : /\ e.tool = tool
                             /\ e.skill_key = skill_key
                             /\ ~since_ts_ms.some \/ e.ts_ms >= since_ts_ms.v }
        group(p) == { e \in sel : e.project_path = p }
        max_ts(g) == IF g = {} THEN 0
                     ELSE CHOOSE t \in { e.ts_ms : e \in g } :
                              \A e \in g : e.ts_ms <= t
        agg == { [project_path |-> p,
                  calls |-> Cardinality(group(p)),
                  last_ts_ms |-> max_ts(group(p))] :
                 p \in { e.project_path : e \in sel } }
    IN  OrderBy(agg, ProjectBefore)

\* A store of at most MaxEvents events, each on a line of its own: the keys
\* s1 and S1 (both linked to the managed skill S1; one event of s1 from
\* before the skill was managed) and brainstorming (not managed), seen at
\* 100 or 200 in /repo or /work, and events of another tool. The managed
\* skill is synced to two tools or to none.
InitQueries ==
    /\ LET Linked == { << << "s1" >>, "m1" >>, << << "S1" >>, "m1" >>,
                       << << "brainstorming" >>, NONE >> }
           Row(tool, km, ts_ms, project_path, log_line) ==
               [tool |-> tool, skill_key |-> km[1], managed_skill_id |-> km[2],
                ts_ms |-> ts_ms, workdir |-> project_path,
                project_path |-> project_path, log_path |-> LogOrder[1],
                log_line |-> log_line, created_at_ms |-> 9000]
           EventPool ==
               { Row("codex", km, ts_ms, project_path,
                     4 * NameRank(km[1]) + 2 * (ts_ms \div 100)
                         + (IF project_path = "/repo" THEN 1 ELSE 2)) :
                   km \in Linked, ts_ms \in { 100, 200 },
                   project_path \in { "/repo", "/work" } }
               \cup { Row("codex", << << "s1" >>, NONE >>, 100, "/repo", 1),
                      Row("cursor", << << "s1" >>, "m1" >>, 200, "/repo", 1),
                      Row("cursor", << << "brainstorming" >>, NONE >>, 200,
                          "/srv", 2) }
       IN  events \in { evs \in SUBSET EventPool : Cardinality(evs) <= MaxEvents }
    /\ skills \in { ManagedSkills,
                     { [m EXCEPT !.targets = {}] : m \in ManagedSkills } }
    /\ files = [l \in {} |-> << >>]
    /\ unopenable = {}
    /\ cursors = [l \in {} |-> 0]
    /\ result = NoResult
    /\ clearMark = [l \in Logs |-> 0]
    /\ config = DefaultConfig
    /\ inflight = [w \in Workers |-> Idle]
    /\ origin = NoOrigin

\* SkillStore::get_skill_usage_leaderboard
Leaderboard ==
    \E tool \in { "codex", "cursor" }, since_ts_ms \in { NoInt, Some(200) },
       limit \in { -1, 1, 50 } :
        \E rows \in get_skill_usage_leaderboard(events, skills, tool,
                                                since_ts_ms, limit) :
            /\ result' = [NoResult EXCEPT !.op = "leaderboard",
                                          !.tool = tool,
                                          !.since_ts_ms = since_ts_ms,
                                          !.limit = limit, !.rows = rows]
            /\ UNCHANGED << skills, files, unopenable, events, cursors,
                            clearMark, config, inflight, origin >>

\* SkillStore::get_skill_usage_by_project
UsageByProject ==
    \E tool \in { "codex", "cursor" }, since_ts_ms \in { NoInt, Some(200) },
       skill_key \in { << "s1" >>, << "S1" >>, << "brainstorming" >> } :
        \E rows \in get_skill_usage_by_project(events, tool, skill_key,
                                               since_ts_ms) :
            /\ result' = [NoResult EXCEPT !.op = "by_project",
                                          !.tool = tool,
                                          !.skill_key = skill_key,
                                          !.since_ts_ms = since_ts_ms,
                                          !.rows = rows]
            /\ UNCHANGED << skills, files, unopenable, events, cursors,
                            clearMark, config, inflight, origin >>

NextQueries ==
    \/ Leaderboard
    \/ UsageByProject

SpecQueries == InitQueries /\ [][NextQueries]_vars

\* ----------------------------------------------- commands: Init, actions
\* The logs the commands find: both exist, holding MaxTotalLines lines at most.
CommandLogLines ==
    UNION { [1..n -> CommandLinePool] : n \in 0..MaxTotalLines }

CommandFiles ==
    { f \in [Logs -> CommandLogLines] :
        Len(f[LogOrder[1]]) + Len(f[LogOrder[2]]) <= MaxTotalLines }

\* The store the commands find: never scanned, scanned to the end of every
\* log, or cleared.
InitCommands ==
    /\ skills = ManagedSkills
    /\ files \in CommandFiles
    /\ unopenable = {}
    /\ \E how \in { "new", "scanned", "cleared" } :
          LET scanned == scan_codex_rollout_logs(
                             {}, [l \in {} |-> 0],
                             [now_ms |-> 9000, project_mode |-> "GitRootOrWorkdir"],
                             collect_rollout_logs)
          IN  /\ events = IF how = "scanned" THEN scanned.events ELSE {}
              /\ cursors = IF how = "scanned" THEN scanned.cursors
                           ELSE IF how = "cleared"
                                THEN set_codex_cursors_to_eof([l \in {} |-> 0])
                           ELSE [l \in {} |-> 0]
    /\ result = NoResult
    /\ clearMark = [l \in Logs |-> 0]
    /\ config \in CommandConfigs
    /\ inflight = [w \in Workers |-> Idle]
    /\ origin = [events |-> events, cursors |-> cursors]

\* Variant: the scan started whatever the settings say.
IssueScanIgnoresConfig(w) ==
    /\ inflight[w].pc = "idle"
    /\ inflight' = [inflight EXCEPT ![w] =
           [Idle EXCEPT !.pc = "list", !.op = "scan",
                        !.now_ms = ClockAt(Issued),
                        !.rollout_logs = collect_rollout_logs]]
    /\ UNCHANGED << skills, files, unopenable, events, cursors, result, clearMark,
                    config, origin >>

\* scan_codex_analytics_now up to its first statement
IssueScan(w) ==
    /\ inflight[w].pc = "idle"
    /\ inflight' = [inflight EXCEPT ![w] =
           IF ~config.enabled
           THEN Returned([Idle EXCEPT !.op = "scan",
                                      !.now_ms = ClockAt(Issued)])
           ELSE [Idle EXCEPT !.pc = "list", !.op = "scan",
                             !.now_ms = ClockAt(Issued),
                             !.rollout_logs = collect_rollout_logs]]
    /\ UNCHANGED << skills, files, unopenable, events, cursors, result, clearMark,
                    config, origin >>

\* backfill_codex_analytics up to its first statement
IssueBackfill(w) ==
    /\ inflight[w].pc = "idle"
    /\ \E days \in DayInputs :
          LET rollout_logs == collect_rollout_logs_for_days(days)
              st == [Idle EXCEPT !.op = "backfill", !.now_ms = ClockAt(Issued)]
          IN  inflight' = [inflight EXCEPT ![w] =
                  IF ~config.enabled \/ ~DaysAreSafe(days)
                  THEN Returned([st EXCEPT !.ok = FALSE])
                  ELSE IF rollout_logs = << >> THEN [st EXCEPT !.pc = "list"]
                  ELSE [st EXCEPT !.pc = "reset", !.i = 1,
                                  !.rollout_logs = rollout_logs]]
    /\ UNCHANGED << skills, files, unopenable, events, cursors, result, clearMark,
                    config, origin >>

\* One turn of the reset loop of backfill_codex_session_days.
ResetCursor(w) ==
    LET st == inflight[w]
    IN  /\ st.pc = "reset"
        /\ cursors' = upsert_codex_scan_cursor(cursors, st.rollout_logs[st.i], 0)
        /\ inflight' = [inflight EXCEPT ![w] =
               IF st.i + 1 > Len(st.rollout_logs)
               THEN [st EXCEPT !.pc = "list", !.i = 0]
               ELSE [st EXCEPT !.i = @ + 1]]
        /\ UNCHANGED << skills, files, unopenable, events, result, clearMark,
                        config, origin >>

\* store.list_skills()? at the head of scan_codex_rollout_logs
ListSkills(w) ==
    LET st == [inflight[w] EXCEPT
                   !.stats.scanned_files = Len(inflight[w].rollout_logs)]
    IN  /\ st.pc = "list"
        /\ inflight' = [inflight EXCEPT ![w] =
               IF st.rollout_logs = << >> THEN AfterLogs(st)
               ELSE [st EXCEPT !.pc = "cursor", !.i = 1]]
        /\ UNCHANGED << skills, files, unopenable, events, cursors, result, clearMark,
                        config, origin >>

\* Variant: the cursor of the log stored at its end before its lines are
\* inserted.
ReadCursorWritesAhead(w) ==
    LET st == inflight[w]
        log == st.rollout_logs[st.i]
        cursor == StoredCursor(cursors, log)
    IN  /\ st.pc = "cursor"
        /\ cursors' = upsert_codex_scan_cursor(cursors, log, Len(files[log]))
        /\ inflight' = [inflight EXCEPT ![w] =
               IF log \in unopenable
               THEN NextLog([st EXCEPT !.stats.parse_errors = @ + 1])
               ELSE ReadAhead([st EXCEPT !.cursor = cursor,
                                         !.last_line = cursor], 1)]
        /\ UNCHANGED << skills, files, unopenable, events, result, clearMark,
                        config, origin >>

\* store.get_codex_scan_cursor_last_line(..)? and the lines read after it
ReadCursor(w) ==
    LET st == inflight[w]
        log == st.rollout_logs[st.i]
        cursor == StoredCursor(cursors, log)
    IN  /\ st.pc = "cursor"
        /\ inflight' = [inflight EXCEPT ![w] =
               IF log \in unopenable
               THEN NextLog([st EXCEPT !.stats.parse_errors = @ + 1])
               ELSE ReadAhead([st EXCEPT !.cursor = cursor,
                                         !.last_line = cursor], 1)]
        /\ UNCHANGED << skills, files, unopenable, events, cursors, result, clearMark,
                        config, origin >>

\* store.insert_skill_usage_event(..)? and the lines read after it
InsertRow(w) ==
    LET st == inflight[w]
        log == st.rollout_logs[st.i]
        r == ScanLine(LocalAcc(st, events), log, st.line_no,
                      files[log][st.line_no], OptsOf(st))
    IN  /\ st.pc = "insert"
        /\ events' = r.events
        /\ inflight' = [inflight EXCEPT ![w] =
               ReadAhead([st EXCEPT !.last_line = r.last_line,
                                    !.stats = r.stats], st.line_no + 1)]
        /\ UNCHANGED << skills, files, unopenable, cursors, result, clearMark,
                        config, origin >>

\* store.upsert_codex_scan_cursor(..)? at the end of a log
WriteCursor(w) ==
    LET st == inflight[w]
    IN  /\ st.pc = "upsert"
        /\ cursors' = CursorAfter(cursors, st.rollout_logs[st.i], st.cursor,
                                  st.last_line)
        /\ inflight' = [inflight EXCEPT ![w] = NextLog(st)]
        /\ UNCHANGED << skills, files, unopenable, events, result, clearMark,
                        config, origin >>

\* cleanup_old_codex_events_core(..)? at the end of the command
Retain(w) ==
    LET st == inflight[w]
    IN  /\ st.pc = "retain"
        /\ events' = delete_skill_usage_events_before(
                         events, "codex",
                         RetentionThreshold(config.retention_days, st.now_ms))
        /\ inflight' = [inflight EXCEPT ![w] =
               Returned([st EXCEPT !.retention_deleted =
                                       Cardinality(events \ events')])]
        /\ UNCHANGED << skills, files, unopenable, cursors, result, clearMark,
                        config, origin >>

\* Variant: the statements of the command undone when one fails.
StoreFaultRollsBack(w) ==
    /\ inflight[w].pc \in StatementPcs
    /\ inflight' = [inflight EXCEPT ![w] = Aborted(inflight[w])]
    /\ events' = origin.events
    /\ cursors' = origin.cursors
    /\ UNCHANGED << skills, files, unopenable, result, clearMark, config, origin >>

\* The statement the thread is at returns Err (the database is locked, the
\* disk is full): the store stays as the statements before it left it.
StoreFault(w) ==
    /\ inflight[w].pc \in StatementPcs
    /\ inflight' = [inflight EXCEPT ![w] = Aborted(inflight[w])]
    /\ UNCHANGED << skills, files, unopenable, events, cursors, result, clearMark,
                    config, origin >>

\* Two threads, a store that does not fail.
NextCommands ==
    \E w \in Workers :
        \/ IssueScan(w)
        \/ IssueBackfill(w)
        \/ ResetCursor(w)
        \/ ListSkills(w)
        \/ ReadCursor(w)
        \/ InsertRow(w)
        \/ WriteCursor(w)
        \/ Retain(w)

SpecCommands == InitCommands /\ [][NextCommands]_vars

\* One command at a time, a store whose statements can fail.
NextFaulty ==
    \/ IssueScan(1)
    \/ IssueBackfill(1)
    \/ ResetCursor(1)
    \/ ListSkills(1)
    \/ ReadCursor(1)
    \/ InsertRow(1)
    \/ WriteCursor(1)
    \/ Retain(1)
    \/ StoreFault(1)

SpecFaulty == InitCommands /\ [][NextFaulty]_vars

\* clear_codex_analytics up to its first statement
IssueClear(w) ==
    /\ inflight[w].pc = "idle"
    /\ inflight' = [inflight EXCEPT ![w] =
           [Idle EXCEPT !.pc = "delete_events", !.op = "clear",
                        !.now_ms = ClockAt(Issued)]]
    /\ UNCHANGED << skills, files, unopenable, events, cursors, result, clearMark,
                    config, origin >>

\* store.delete_skill_usage_events_for_tool("codex")?
DeleteEvents(w) ==
    LET st == inflight[w]
    IN  /\ st.pc = "delete_events"
        /\ events' = delete_skill_usage_events_for_tool(events, "codex")
        /\ inflight' = [inflight EXCEPT ![w] = [st EXCEPT !.pc = "delete_cursors"]]
        /\ UNCHANGED << skills, files, unopenable, cursors, result, clearMark,
                        config, origin >>

\* store.clear_codex_scan_cursors()? at the head of set_codex_cursors_to_eof,
\* and the walk that follows it
DeleteCursors(w) ==
    LET st == [inflight[w] EXCEPT !.rollout_logs = collect_rollout_logs]
    IN  /\ st.pc = "delete_cursors"
        /\ cursors' = clear_codex_scan_cursors(cursors)
        /\ inflight' = [inflight EXCEPT ![w] =
               IF st.rollout_logs = << >> THEN Returned(st)
               ELSE [st EXCEPT !.pc = "eof", !.i = 1]]
        /\ UNCHANGED << skills, files, unopenable, events, result, clearMark,
                        config, origin >>

\* One turn of the loop of set_codex_cursors_to_eof: count_lines, then
\* store.upsert_codex_scan_cursor(..)?
WriteEof(w) ==
    LET st == inflight[w]
        log == st.rollout_logs[st.i]
    IN  /\ st.pc = "eof"
        /\ cursors' = upsert_codex_scan_cursor(cursors, log, EofCursor(log))
        /\ inflight' = [inflight EXCEPT ![w] =
               IF st.i + 1 > Len(st.rollout_logs) THEN Returned(st)
               ELSE [st EXCEPT !.i = @ + 1]]
        /\ UNCHANGED << skills, files, unopenable, events, result, clearMark,
                        config, origin >>

\* Two threads, one that scans and one that clears, over a store whose
\* statements can fail.
NextClear ==
    \E w \in Workers :
        \/ IssueScan(w)
        \/ ListSkills(w)
        \/ ReadCursor(w)
        \/ InsertRow(w)
        \/ WriteCursor(w)
        \/ Retain(w)
        \/ IssueClear(w)
        \/ DeleteEvents(w)
        \/ DeleteCursors(w)
        \/ WriteEof(w)
        \/ StoreFault(w)

SpecClear == InitCommands /\ [][NextClear]_vars

\* The assistant appends a line to a log while commands run.
GrowLog ==
    \E log \in DOMAIN files, line \in CommandLinePool :
        /\ TotalLines < MaxTotalLines
        /\ files' = [files EXCEPT ![log] = Append(@, line)]
        /\ UNCHANGED << skills, unopenable, events, cursors, result, clearMark,
                        config, inflight, origin >>

\* Two threads that scan while the assistant goes on writing its logs.
NextRace ==
    \/ GrowLog
    \/ \E w \in Workers :
           \/ IssueScan(w)
           \/ ListSkills(w)
           \/ ReadCursor(w)
           \/ InsertRow(w)
           \/ WriteCursor(w)
           \/ Retain(w)

SpecRace == InitCommands /\ [][NextRace]_vars

\* ------------------------------------------------------ claims: helpers
\* The cursor of a log, 0 when it has no row.
CursorOrZero(log) == IF log \in DOMAIN cursors THEN cursors[log] ELSE 0

\* The line is a use-skill call on a skill that is present under the skills root.
Recognised(line) ==
    /\ line.utf8
    /\ parse_rollout_line_for_use_skill(line).some
    /\ canonicalize_codex_skill_key(
           parse_rollout_line_for_use_skill(line).skill_key).some

\* The line numbers from..to of a log that hold recognised use-skill calls.
RecognisedIn(log, from, to) ==
    { i \in from..to : i <= Len(files[log]) /\ Recognised(files[log][i]) }

HasEvent(evs, log, i) ==
    \E e \in evs : e.tool = "codex" /\ e.log_path = log /\ e.log_line = i

RECURSIVE SumOver(_, _)
SumOver(S, f) ==
    IF S = {} THEN 0
    ELSE LET x == CHOOSE y \in S : TRUE IN f[x] + SumOver(S \ { x }, f)

\* ------------------------------------------------------------------- C1
\* C1: in every reachable state at most one persisted usage event exists for
\* each tuple (tool, log_path, log_line).
C1_UniqueKey == \A a \in events, b \in events : SameKey(a, b) => a = b

\* A backfill has offered rows that were already stored.
C1_Witness ==
    /\ result.op = "backfill"
    /\ result.stats.duplicate_events > 0
    /\ \E a \in events : a.tool = "codex"

\* ------------------------------------------------------------------- C2
\* C2: after a clear, no scan creates an event for a line that was in a log
\* when the clear ran (until a backfill), and a scan that directly follows
\* the clear reports new_events = 0.
C2_NoResurrection ==
    [][result'.op = "scan" =>
          /\ \A e \in events' \ events : e.log_line > clearMark[e.log_path]
          /\ result.op = "clear" => result'.stats.new_events = 0]_vars

\* ------------------------------------------------------------------- C3
\* C3: a scan that directly follows a scan, with no log changed in between,
\* attempts no insert: new_events, duplicate_events and processed_lines are 0
\* and the events and the cursors stay as they were.
C3_Idempotent ==
    [][(result.op = "scan" /\ result'.op = "scan") =>
          /\ result'.stats.new_events = 0
          /\ result'.stats.duplicate_events = 0
          /\ result'.stats.processed_lines = 0
          /\ events' = events
          /\ cursors' = cursors]_vars

\* A scan found nothing to read in a log whose lines are all behind the cursor.
C3_Witness ==
    /\ result.op = "scan"
    /\ result.stats.processed_lines = 0
    /\ \E log \in DOMAIN files :
          /\ Len(files[log]) > 0
          /\ CursorOrZero(log) = Len(files[log])
          /\ HasEvent(events, log, 1)

\* ------------------------------------------------------------------- C4
\* The lines above the cursor of the log are new: nothing was stored for them.
ScannedUpTo(log) ==
    /\ CursorOrZero(log) <= Len(files[log])
    /\ \A i \in (CursorOrZero(log) + 1)..Len(files[log]) : ~HasEvent(events, log, i)

\* C4: for logs scanned up to line n and grown by k lines, a scan processes
\* exactly the lines n+1..n+k, reports as new_events the number of those
\* lines that are use-skill calls on a recognised skill, stores an event for
\* each of them, and reads no line 1..n again.
C4_Incremental ==
    [][(result'.op = "scan" /\ \A log \in DOMAIN files : ScannedUpTo(log)) =>
          /\ result'.stats.processed_lines =
                 SumOver(DOMAIN files,
                         [log \in DOMAIN files |->
                             Len(files[log]) - CursorOrZero(log)])
          /\ result'.stats.new_events =
                 SumOver(DOMAIN files,
                         [log \in DOMAIN files |->
                             Cardinality(RecognisedIn(log, CursorOrZero(log) + 1,
                                                      Len(files[log])))])
          /\ result'.stats.duplicate_events = 0
          /\ events \subseteq events'
          /\ \A e \in events' \ events :
                 /\ e.log_path \in DOMAIN files
                 /\ e.log_line \in RecognisedIn(e.log_path,
                                                CursorOrZero(e.log_path) + 1,
                                                Len(files[e.log_path]))
          /\ \A log \in DOMAIN files :
                 /\ \A i \in RecognisedIn(log, CursorOrZero(log) + 1,
                                          Len(files[log])) : HasEvent(events', log, i)
                 /\ cursors'[log] = Len(files[log])]_vars

\* A scan read the one line appended behind an already scanned line and
\* stored its event.
C4_Witness ==
    /\ result.op = "scan"
    /\ result.stats.processed_lines = 1
    /\ result.stats.new_events = 1
    /\ \E log \in DOMAIN files :
          /\ CursorOrZero(log) = 2
          /\ HasEvent(events, log, 1)
          /\ HasEvent(events, log, 2)

\* ------------------------------------------------------------------- C5
\* Every line of the log is behind its cursor and every recognised use-skill
\* line of it has its event.
FullyIngested(log) ==
    /\ log \in DOMAIN cursors
    /\ cursors[log] = Len(files[log])
    /\ \A i \in RecognisedIn(log, 1, Len(files[log])) : HasEvent(events, log, i)

\* C5: a backfill of day directories whose logs were fully scanned does not
\* grow the store: the events stay as they were, new_events = 0, and every
\* recorded line of the selected logs is counted in duplicate_events.
C5_BackfillNoGrowth ==
    [][(/\ result'.op = "backfill"
        /\ result'.ok
        /\ \A log \in result'.logs : FullyIngested(log)) =>
          /\ events' = events
          /\ Cardinality(events') = Cardinality(events)
          /\ result'.stats.new_events = 0
          /\ result'.stats.duplicate_events =
                 SumOver(result'.logs,
                         [log \in result'.logs |->
                             Cardinality(RecognisedIn(log, 1, Len(files[log])))])
          /\ result'.stats.processed_lines =
                 SumOver(result'.logs,
                         [log \in result'.logs |-> Len(files[log])])]_vars

\* A backfill went over a selected log again and found its events stored.
C5_Witness ==
    /\ result.op = "backfill"
    /\ result.ok
    /\ result.stats.new_events = 0
    /\ result.stats.duplicate_events >= 1
    /\ \E log \in result.logs :
          /\ CursorOrZero(log) = Len(files[log])
          /\ HasEvent(events, log, 1)

\* ------------------------------------------------------------------- C6
\* C6: from one scan to the next the last_line stored for a log never
\* decreases (logs only grow).
C6_CursorMonotone ==
    [][result'.op = "scan" =>
          \A log \in DOMAIN cursors :
              /\ log \in DOMAIN cursors'
              /\ cursors'[log] >= cursors[log]]_vars

\* A scan moved a cursor from 1 to 2.
C6_Witness ==
    /\ result.op = "scan"
    /\ result.stats.processed_lines = 1
    /\ \E log \in DOMAIN cursors : cursors[log] = 2

\* ------------------------------------------------------------------- C7
\* C7: when a clear returns, no event of the tool remains, deleted_events is
\* the number of the tool's events there were, and the cursor table holds
\* exactly one row per discoverable log, its last_line the number of lines
\* of the log.
C7_ClearToEof ==
    [][result'.op = "clear" =>
          /\ result'.ok
          /\ \A e \in events' : e.tool # "codex"
          /\ result'.deleted = Cardinality({ e \in events : e.tool = "codex" })
          /\ DOMAIN cursors' = DOMAIN files
          /\ \A log \in DOMAIN files : cursors'[log] = Len(files[log])]_vars

\* ------------------------------------------------------------------- C8
\* C8: a retention cleanup with window d >= 0 and reference now deletes
\* exactly the tool's events with ts_ms < now - d * 86,400,000 and returns
\* their number; every other event is kept.
C8_Retention ==
    [][(result'.op = "retention" /\ result'.retention_days >= 0) =>
          /\ events' =
                 { e \in events :
                     ~(/\ e.tool = "codex"
                       /\ e.ts_ms < result'.now_ms
                                    - result'.retention_days * 86400000) }
          /\ result'.deleted = Cardinality(events) - Cardinality(events')]_vars

\* A cleanup deleted an event and kept an older one of another tool.
C8_Witness ==
    /\ result.op = "retention"
    /\ result.deleted >= 1
    /\ \E e \in events : e.tool # "codex" /\ e.ts_ms < result.now_ms

\* ------------------------------------------------------------------- C9
\* C9 as stated: with a zero-day window the cleanup deletes every event of
\* the tool whose ts_ms is at or before now, one at now included.
C9_ZeroDayInclusive ==
    [][(result'.op = "retention" /\ result'.retention_days = 0) =>
          \A e \in events :
              (e.tool = "codex" /\ e.ts_ms <= result'.now_ms) => e \notin events']_vars

\* C9 amended: with a zero-day window the cleanup deletes every event of the
\* tool whose ts_ms is before now and keeps the events at now or later.
C9_ZeroDayExclusive ==
    [][(result'.op = "retention" /\ result'.retention_days = 0) =>
          \A e \in events :
              /\ (e.tool = "codex" /\ e.ts_ms < result'.now_ms) => e \notin events'
              /\ e.ts_ms >= result'.now_ms => e \in events']_vars

\* A zero-day cleanup deleted an event and left one whose ts_ms is now.
C9_Witness ==
    /\ result.op = "retention"
    /\ result.retention_days = 0
    /\ result.deleted >= 1
    /\ \E e \in events : e.tool = "codex" /\ e.ts_ms = result.now_ms

\* ------------------------------------------------------------------ C10
\* C10: an insert returns true exactly when it created a row; an insert on a
\* key that is taken returns false, not an error, and leaves every row,
\* the one with that key included, as it was.
C10_InsertIfAbsent ==
    [][result'.op = "insert" =>
          /\ result'.ok
          /\ result'.inserted <=> (result'.row \in events' \ events)
          /\ (\E e \in events : SameKey(e, result'.row)) =>
                 (~result'.inserted /\ events' = events)
          /\ (~\E e \in events : SameKey(e, result'.row)) =>
                 (result'.inserted /\ events' = events \cup { result'.row })]_vars

\* An insert was refused because a different row holds its key.
C10_Witness ==
    /\ result.op = "insert"
    /\ ~result.inserted
    /\ \E e \in events : SameKey(e, result.row) /\ e # result.row

\* ------------------------------------------------------------------ C11
\* The cursor the store held for the log when the commands were issued.
OriginCursor(log) ==
    IF log \in DOMAIN origin.cursors THEN origin.cursors[log] ELSE 0

\* The events of the log are the ones the store held when the commands
\* were issued.
UntouchedEvents(log) ==
    { e \in events : e.log_path = log } = { e \in origin.events : e.log_path = log }

\* C11: a scan or backfill that a failing store statement stopped at its
\* i-th log returned an error and no statistics; every log before the i-th
\* keeps what the call committed for it (the cursor at the end of the log,
\* an event for every line the call read), and no log after the i-th was
\* touched by the scan.
C11_AbortKeepsCommitted ==
    \A w \in Workers :
        LET st == inflight[w]
        IN  (st.pc = "done" /\ ~st.ok /\ st.i > 0) =>
                /\ st.stats = ZeroStats
                /\ \A j \in 1..(st.i - 1) :
                       LET log == st.rollout_logs[j]
                           from == IF st.op = "scan" THEN OriginCursor(log) ELSE 0
                       IN  /\ CursorOrZero(log) = Len(files[log])
                           /\ \A n \in (from + 1)..Len(files[log]) :
                                  HasEvent(events, log, n)
                /\ \A j \in (st.i + 1)..Len(st.rollout_logs) :
                       LET log == st.rollout_logs[j]
                       IN  /\ UntouchedEvents(log)
                           /\ CursorOrZero(log) =
                                  IF st.op = "scan" THEN OriginCursor(log) ELSE 0

\* A scan failed at its second log after it had stored an event and the
\* cursor of the first.
C11_Witness ==
    \E w \in Workers :
        /\ inflight[w].pc = "done"
        /\ ~inflight[w].ok
        /\ inflight[w].op = "scan"
        /\ inflight[w].i = 2
        /\ origin.events = {}
        /\ HasEvent(events, inflight[w].rollout_logs[1], 1)
        /\ CursorOrZero(inflight[w].rollout_logs[1]) = 1

\* ------------------------------------------------------------------ C12
\* The discovered logs File::open succeeds on.
Opened == DOMAIN files \ unopenable

\* The lines of the log a scan reads: the ones behind its cursor.
ReadLines(log) == (CursorOrZero(log) + 1)..Len(files[log])

EventsOf(evs, log) == { e \in evs : e.log_path = log }

\* C12: a scan over logs some of which cannot be opened returns statistics;
\* its parse errors are one for each such log (and one for each unreadable
\* line of the others); the cursor row and the events of each such log
\* stay as they were; every other discovered log is read to its end, with
\* an event stored for every recognised line read.
C12_UnopenableSkipped ==
    [][result'.op = "scan" =>
          /\ result'.ok
          /\ result'.stats.scanned_files = Cardinality(DOMAIN files)
          /\ result'.stats.parse_errors =
                 Cardinality(DOMAIN files \cap unopenable)
                 + SumOver(Opened,
                           [log \in Opened |->
                               Cardinality({ n \in ReadLines(log) :
                                               ~files[log][n].utf8 })])
          /\ \A log \in DOMAIN files \cap unopenable :
                 /\ (log \in DOMAIN cursors') = (log \in DOMAIN cursors)
                 /\ log \in DOMAIN cursors => cursors'[log] = cursors[log]
                 /\ EventsOf(events', log) = EventsOf(events, log)
          /\ \A log \in Opened :
                 /\ log \in DOMAIN cursors'
                 /\ cursors'[log] = Len(files[log])
                 /\ \A n \in RecognisedIn(log, CursorOrZero(log) + 1,
                                          Len(files[log])) :
                        HasEvent(events', log, n)]_vars

\* A scan could not open the first log, counted one parse error, left the
\* log without a cursor row and stored the event of the second log.
C12_Witness ==
    /\ result.op = "scan"
    /\ LogOrder[1] \in unopenable
    /\ LogOrder[1] \in DOMAIN files
    /\ Len(files[LogOrder[1]]) >= 1
    /\ LogOrder[1] \notin DOMAIN cursors
    /\ result.stats.parse_errors = 1
    /\ result.stats.new_events = 1
    /\ HasEvent(events, LogOrder[2], 1)

\* ------------------------------------------------------------------ C13
\* The parser returns None for the line: it is text, but not JSON, or lacks
\* fields, or is not a shell_command function call with a use-skill command.
Malformed(line) == line.utf8 /\ ~parse_rollout_line_for_use_skill(line).some

\* C13: a scan does not stop at a malformed line: it processes every line
\* behind the cursor of each log it opens, and for a log with a malformed
\* line among them the cursor ends at the last line of the log and every
\* recognised line read, the ones after the malformed line included, has
\* its event.
C13_MalformedLineSkipped ==
    [][result'.op = "scan" =>
          /\ result'.ok
          /\ result'.stats.processed_lines =
                 SumOver(Opened,
                         [log \in Opened |-> Cardinality(ReadLines(log))])
          /\ \A log \in Opened :
                 (\E n \in ReadLines(log) : Malformed(files[log][n])) =>
                     /\ log \in DOMAIN cursors'
                     /\ cursors'[log] = Len(files[log])
                     /\ \A n \in RecognisedIn(log, CursorOrZero(log) + 1,
                                              Len(files[log])) :
                            HasEvent(events', log, n)]_vars

\* A scan read a malformed line and, after it, a use-skill line whose event
\* it stored.
C13_Witness ==
    /\ result.op = "scan"
    /\ result.stats.processed_lines = 2
    /\ result.stats.new_events = 1
    /\ \E log \in DOMAIN files :
          /\ Len(files[log]) = 2
          /\ files[log][1] \in MalformedPool
          /\ files[log][2] = LUse
          /\ CursorOrZero(log) = 2
          /\ HasEvent(events, log, 2)
          /\ ~HasEvent(events, log, 1)

\* ------------------------------------------------------------------ C14
\* C14: the parse errors a scan returns are one for each line read that is
\* unreadable, not JSON or of an unmatched payload shape (and one for each
\* log that cannot be opened), and its skipped-skill-not-found count is the
\* number of use-skill lines read whose skill key is not recognised.
C14_FailuresCounted ==
    [][result'.op = "scan" =>
          /\ result'.stats.parse_errors =
                 Cardinality(DOMAIN files \cap unopenable)
                 + SumOver(Opened,
                           [log \in Opened |->
                               Cardinality({ n \in ReadLines(log) :
                                               \/ ~files[log][n].utf8
                                               \/ Malformed(files[log][n]) })])
          /\ result'.stats.skipped_skill_not_found =
                 SumOver(Opened,
                         [log \in Opened |->
                             Cardinality({ n \in ReadLines(log) :
                                 /\ files[log][n].utf8
                                 /\ ~Malformed(files[log][n])
                                 /\ ~Recognised(files[log][n]) })])]_vars

\* ------------------------------------------------------------------ C15
\* The path is absolute or has a parent-directory component (".." from one
\* separator, or end of the text, to the next).
NotTraversalSafe(path) ==
    \/ path # << >> /\ Head(path) = "/"
    \/ \E i \in 1..Len(path) :
           /\ path[i] = ".."
           /\ i = 1 \/ path[i - 1] = "/"
           /\ i = Len(path) \/ path[i + 1] = "/"

\* C15: a backfill given a day path that is not traversal-safe fails and
\* changes nothing: the cursors and the events stay as they were, for the
\* logs of the safe day paths of the call too.
C15_UnsafeDayRejected ==
    [][(/\ result'.op = "backfill"
        /\ \E d \in result'.days : NotTraversalSafe(d)) =>
          /\ ~result'.ok
          /\ result'.stats = ZeroStats
          /\ events' = events
          /\ cursors' = cursors]_vars

\* A backfill was refused for an unsafe day path; the log of the safe day
\* path given with it keeps its cursor at 1 and has no event for its line.
C15_Witness ==
    /\ result.op = "backfill"
    /\ ~result.ok
    /\ DayOf(LogOrder[1]) \in result.days
    /\ \E d \in result.days : NotTraversalSafe(d)
    /\ LogOrder[1] \in DOMAIN files
    /\ Len(files[LogOrder[1]]) = 1
    /\ Recognised(files[LogOrder[1]][1])
    /\ CursorOrZero(LogOrder[1]) = 1
    /\ ~HasEvent(events, LogOrder[1], 1)

\* ------------------------------------------------------------------ C16
\* C16: with analytics disabled in the settings, scan_codex_analytics_now
\* returns at once, Ok with all counters 0 (retention_deleted included), and
\* the events and the cursors are as they were; while the settings stay so,
\* no step of a command changes the events or the cursors.
C16_DisabledScanNoOp ==
    [][~config.enabled =>
          /\ events' = events
          /\ cursors' = cursors
          /\ \A w \in Workers :
                 (inflight[w].pc = "idle" /\ inflight'[w].op = "scan") =>
                     /\ inflight'[w].pc = "done"
                     /\ inflight'[w].ok
                     /\ inflight'[w].stats = ZeroStats
                     /\ inflight'[w].retention_deleted = 0]_vars

\* A disabled scan returned while a log held a use-skill line that was
\* never scanned.
C16_Witness ==
    /\ ~config.enabled
    /\ \E w \in Workers :
          /\ inflight[w].pc = "done"
          /\ inflight[w].op = "scan"
          /\ inflight[w].ok
    /\ events = {}
    /\ \E log \in DOMAIN files :
          /\ Len(files[log]) >= 1
          /\ ReachesInsert(files[log][1])
          /\ CursorOrZero(log) = 0

\* ------------------------------------------------------------------ C17
\* Both commands returned Ok, with analytics enabled and the retention
\* cleanup disabled: each was the scan or the backfill alone.
BothReturned ==
    /\ config.enabled
    /\ ~config.retention_enabled
    /\ \A w \in Workers : inflight[w].pc = "done" /\ inflight[w].ok

\* The store after the operation of the returned command st has run alone,
\* from start to end, on the store given.
Serial(store, st) ==
    scan_codex_rollout_logs(
        store.events,
        IF st.op = "backfill"
        THEN ResetCursors(store.cursors, st.rollout_logs, 1) ELSE store.cursors,
        OptsOf(st), st.rollout_logs)

\* The events after the two operations have run one after the other.
SerialEvents(first, second) ==
    Serial(Serial(origin, inflight[first]), inflight[second]).events

NewEventsReported ==
    SumOver(Workers, [w \in Workers |-> inflight[w].stats.new_events])

\* C17 as stated: when two scan or backfill operations that ran concurrently
\* have returned, no two events share (tool, log_path, log_line), their
\* new_events add up to the number of events added, and the events are the
\* ones one of the two serial executions leaves.
C17_SerialEvents ==
    BothReturned =>
        /\ \A a \in events, b \in events : SameKey(a, b) => a = b
        /\ NewEventsReported = Cardinality(events \ origin.events)
        /\ events \in { SerialEvents(1, 2), SerialEvents(2, 1) }

\* The event without the fields that come from the clock of the operation
\* that inserted it: created_at_ms and, for a line without a readable
\* timestamp, ts_ms.
WithoutInsertTime(e) ==
    [e EXCEPT !.created_at_ms = 0,
              !.ts_ms = IF parse_rollout_line_for_use_skill(
                                files[e.log_path][e.log_line]).ts_ms > 0
                        THEN @ ELSE 0]

\* C17 amended: as above, the events compared without created_at_ms and
\* without the ts_ms of lines that have no readable timestamp.
C17_SerialEventsUpToInsertTime ==
    BothReturned =>
        /\ \A a \in events, b \in events : SameKey(a, b) => a = b
        /\ NewEventsReported = Cardinality(events \ origin.events)
        /\ { WithoutInsertTime(e) : e \in events } \in
               { { WithoutInsertTime(e) : e \in SerialEvents(1, 2) },
                 { WithoutInsertTime(e) : e \in SerialEvents(2, 1) } }

\* Two concurrent operations have returned; each of them inserted an event
\* and each of them found a line the other had inserted.
C17_Witness ==
    /\ BothReturned
    /\ \A w \in Workers :
          /\ inflight[w].stats.new_events >= 1
          /\ inflight[w].stats.duplicate_events >= 1

\* ------------------------------------------------------------------ C18
\* C18: at most one scan or backfill command is between its first and its
\* last statement of the store at a time.
C18_OneInFlight ==
    Cardinality({ w \in Workers : inflight[w].pc \in StatementPcs }) <= 1

\* ------------------------------------------------------------------ C19
\* The key without the quotes around it and without one leading skills/.
Stripped(raw_key) == strip_prefix_or(trim_matches(raw_key), << "skills", "/" >>)

\* What follows superpowers: in the key, without one leading skills/.
AfterSuperpowers(key) ==
    strip_prefix_or(SubSeq(key, 2, Len(key)), << "skills", "/" >>)

Accepted(key) == ~NotTraversalSafe(key) /\ SkillExists(key)

\* C19: canonicalize returns the stripped key when that is traversal-safe and
\* exists under the skills root; else, for a stripped key superpowers:<rest>,
\* it returns rest (without a leading skills/) when that is traversal-safe
\* and exists; else nothing. With brainstorming/ under the root,
\* superpowers:brainstorming gives brainstorming; ../../etc/passwd gives
\* nothing although the path it leads to exists.
C19_CanonicalizeRules ==
    result.op = "canonicalized" =>
        /\ result.canonical =
               IF Accepted(Stripped(result.raw_key))
               THEN [some |-> TRUE, key |-> Stripped(result.raw_key)]
               ELSE IF /\ Stripped(result.raw_key) # << >>
                       /\ Head(Stripped(result.raw_key)) = "superpowers:"
                       /\ Accepted(AfterSuperpowers(Stripped(result.raw_key)))
                    THEN [some |-> TRUE,
                          key |-> AfterSuperpowers(Stripped(result.raw_key))]
               ELSE NoKey
        /\ result.raw_key = << "superpowers:", "brainstorming" >> =>
               result.canonical = [some |-> TRUE, key |-> << "brainstorming" >>]
        /\ result.raw_key = << "..", "/", "..", "/", "etc", "/", "passwd" >> =>
               /\ SkillExists(result.raw_key)
               /\ result.canonical = NoKey

\* superpowers:skills/s1 was canonicalized to s1.
C19_Witness ==
    /\ result.op = "canonicalized"
    /\ result.raw_key = << "superpowers:", "skills", "/", "s1" >>
    /\ result.canonical = [some |-> TRUE, key |-> << "s1" >>]

\* ------------------------------------------------------------------ C20
\* C20: canonicalize looks under the skills root only for candidates that
\* are traversal-safe; a key it returns is traversal-safe, was looked for
\* and exists; the skill_key of every event a scan stores is traversal-safe
\* and exists under the skills root.
C20_SafeBeforeExists ==
    /\ \A p \in result.probed : ~NotTraversalSafe(p)
    /\ result.canonical.some =>
           /\ ~NotTraversalSafe(result.canonical.key)
           /\ result.canonical.key \in result.probed
           /\ SkillExists(result.canonical.key)
    /\ \A e \in events :
           e.tool = "codex" =>
               ~NotTraversalSafe(e.skill_key) /\ SkillExists(e.skill_key)

\* A key that leads to an existing path outside the skills root was
\* refused without a look at the filesystem.
C20_Witness ==
    /\ result.op = "canonicalized"
    /\ NotTraversalSafe(Stripped(result.raw_key))
    /\ SkillExists(Stripped(result.raw_key))
    /\ result.probed = {}
    /\ ~result.canonical.some

\* ------------------------------------------------------------------ C21
\* The positions of the tokens of the command that are the literal use-skill.
UseSkillAt(command) ==
    { i \in 1..Len(command) : command[i] = << "use-skill" >> }

\* C21: the parser returns an event only for a line whose payload has type
\* function_call and name shell_command and whose arguments decode to JSON
\* with a command holding a use-skill token and with a workdir; for a payload
\* of another type or name it returns nothing, whatever text the payload
\* holds, and no scan stores an event for such a line.
C21_ParserGate ==
    /\ result.op = "parsed" =>
           LET p == result.line.payload
           IN  /\ result.event.some =>
                      /\ result.line.json
                      /\ p.present
                      /\ p.kind = "function_call"
                      /\ p.name = "shell_command"
                      /\ p.arguments.present
                      /\ p.arguments.json
                      /\ p.arguments.hasCommand
                      /\ UseSkillAt(p.arguments.command) # {}
                      /\ p.arguments.workdir # NONE
               /\ (p.kind # "function_call" \/ p.name # "shell_command") =>
                      ~result.event.some
    /\ \A e \in events :
           /\ files[e.log_path][e.log_line].payload.kind = "function_call"
           /\ files[e.log_path][e.log_line].payload.name = "shell_command"

\* The parser was given a function_call_output that holds a whole use-skill
\* call and returned nothing.
C21_Witness ==
    /\ result.op = "parsed"
    /\ result.line.payload.kind = "function_call_output"
    /\ result.line.payload.arguments = LUse.payload.arguments
    /\ UseSkillAt(result.line.payload.arguments.command) # {}
    /\ ~result.event.some

\* ------------------------------------------------------------------ C22
\* The token without the quote characters at its two ends.
Unquoted(token) ==
    LET inner == { i \in 1..Len(token) : ~IsQuote(token[i]) }
    IN  IF inner = {} THEN << >>
        ELSE SubSeq(token,
                    CHOOSE i \in inner : \A j \in inner : i <= j,
                    CHOOSE i \in inner : \A j \in inner : i >= j)

\* C22: the raw skill key of a command is the token that follows the first
\* token equal to use-skill, without the quote characters around it; a
\* command without a use-skill token, or whose first use-skill token is its
\* last token, has no skill key.
C22_KeyFollowsUseSkill ==
    result.op = "extracted" =>
        LET command == result.line.payload.arguments.command
            at == UseSkillAt(command)
            first == CHOOSE i \in at : \A j \in at : i <= j
        IN  IF at = {} THEN ~result.line_key.some
            ELSE IF first = Len(command) THEN ~result.line_key.some
            ELSE result.line_key =
                     [some |-> TRUE, key |-> Unquoted(command[first + 1])]

\* The key s1 was taken from the quoted token 's1' behind use-skill, in a
\* command that starts with another token.
C22_Witness ==
    /\ result.op = "extracted"
    /\ result.line.payload.arguments.command =
           << << "superpowers-codex" >>, << "use-skill" >>, << "'", "s1", "'" >> >>
    /\ result.line_key = [some |-> TRUE, key |-> << "s1" >>]

\* ------------------------------------------------------------------ C23
\* C23: the ts_ms of a stored event is the timestamp of its line in epoch
\* milliseconds when the line has a timestamp that parses, and the now of
\* the scan otherwise; a line without a timestamp that parses still gets its
\* event and counts no parse error.
C23_TimestampOrNow ==
    /\ \A e \in events :
           LET ts == files[e.log_path][e.log_line].timestamp
           IN  e.ts_ms = IF ts.present /\ ts.rfc3339
                         THEN ts.unix * 1000 + ts.milli
                         ELSE e.created_at_ms
    /\ result.op = "scan" =>
           /\ result.stats.parse_errors = 0
           /\ \A log \in DOMAIN files :
                  \A i \in RecognisedIn(log, 1, Len(files[log])) :
                      HasEvent(events, log, i)

\* ------------------------------------------------------------------ C24
\* The repository a work directory lies in (NONE when it lies in none) and
\* the root of a repository: for a bare repository, its own directory.
RepositoryOf(workdir) ==
    IF workdir \in { "/repo", "/repo/sub", "/repo/lib/deep" } THEN "/repo"
    ELSE IF workdir \in { "/srv/bare.git", "/srv/bare.git/hooks" }
         THEN "/srv/bare.git"
    ELSE NONE

\* C24 as stated: a scan in Workdir mode stores the workdir as project_path;
\* a scan in GitRootOrWorkdir mode stores the root of the repository the
\* workdir lies in, or the workdir when it lies in none, so that the events
\* it stores for workdirs of one repository share their project_path.
C24_ProjectIsRepositoryRoot ==
    [][result'.op = "scan" =>
          /\ \A e \in events' \ events :
                 e.project_path =
                     IF result'.project_mode = "Workdir" THEN e.workdir
                     ELSE IF RepositoryOf(e.workdir) = NONE THEN e.workdir
                     ELSE RepositoryOf(e.workdir)
          /\ result'.project_mode = "GitRootOrWorkdir" =>
                 \A a \in events' \ events, b \in events' \ events :
                     (/\ RepositoryOf(a.workdir) # NONE
                      /\ RepositoryOf(a.workdir) = RepositoryOf(b.workdir)) =>
                         a.project_path = b.project_path]_vars

\* C24 amended: as above, the project_path for a workdir in a bare
\* repository being the parent directory of that repository.
C24_ProjectIsWorkTreeRoot ==
    [][result'.op = "scan" =>
          /\ \A e \in events' \ events :
                 e.project_path =
                     IF result'.project_mode = "Workdir" THEN e.workdir
                     ELSE IF RepositoryOf(e.workdir) = NONE THEN e.workdir
                     ELSE IF RepositoryOf(e.workdir) = "/srv/bare.git" THEN "/srv"
                     ELSE RepositoryOf(e.workdir)
          /\ result'.project_mode = "GitRootOrWorkdir" =>
                 \A a \in events' \ events, b \in events' \ events :
                     (/\ RepositoryOf(a.workdir) # NONE
                      /\ RepositoryOf(a.workdir) = RepositoryOf(b.workdir)) =>
                         a.project_path = b.project_path]_vars

\* A scan in GitRootOrWorkdir mode stored events for two subdirectories of
\* one repository under the root of that repository.
C24_Witness ==
    /\ result.op = "scan"
    /\ result.project_mode = "GitRootOrWorkdir"
    /\ \E a \in events, b \in events :
           /\ a.workdir = "/repo/sub"
           /\ b.workdir = "/repo/lib/deep"
           /\ a.project_path = "/repo"
           /\ b.project_path = "/repo"

\* ------------------------------------------------------------------ C25
\* C25: the rows of the leaderboard come by calls descending, then by
\* last_ts_ms descending, then by name ascending (of two skills with the
\* same calls, last seen at 200 and at 100, the one seen at 200 comes
\* first); the rows of the per-project query come by calls descending, then
\* by last_ts_ms descending, then by project path ascending.
C25_RowsOrdered ==
    /\ result.op = "leaderboard" =>
           \A i \in DOMAIN result.rows, j \in DOMAIN result.rows :
               i < j =>
                   LET a == result.rows[i]
                       b == result.rows[j]
                   IN  \/ a.calls > b.calls
                       \/ a.calls = b.calls /\ a.last_ts_ms > b.last_ts_ms
                       \/ /\ a.calls = b.calls
                          /\ a.last_ts_ms = b.last_ts_ms
                          /\ NameRank(a.skill_name) <= NameRank(b.skill_name)
    /\ result.op = "by_project" =>
           \A i \in DOMAIN result.rows, j \in DOMAIN result.rows :
               i < j =>
                   LET a == result.rows[i]
                       b == result.rows[j]
                   IN  \/ a.calls > b.calls
                       \/ a.calls = b.calls /\ a.last_ts_ms > b.last_ts_ms
                       \/ /\ a.calls = b.calls
                          /\ a.last_ts_ms = b.last_ts_ms
                          /\ PathRank(a.project_path) < PathRank(b.project_path)

\* The leaderboard lists two skills with the same calls, the one last seen
\* at 200 before the one last seen at 100, against the order of their names.
C25_Witness ==
    /\ result.op = "leaderboard"
    /\ Len(result.rows) = 2
    /\ result.rows[1].calls = result.rows[2].calls
    /\ result.rows[1].last_ts_ms = 200
    /\ result.rows[2].last_ts_ms = 100
    /\ NameRank(result.rows[1].skill_name) > NameRank(result.rows[2].skill_name)

\* ------------------------------------------------------------------ C26
\* The events a leaderboard query looks at, and the ones of a key among them.
Selected == { e \in events : /\ e.tool = result.tool
                             /\ result.since_ts_ms.some =>
                                    e.ts_ms >= result.since_ts_ms.v }

SelectedOf(key) == { e \in Selected : e.skill_key = key }

\* The row is the aggregate of the selected events of its key.
AggregateOf(row) ==
    LET evs == SelectedOf(row.skill_id)
        linked == { e.managed_skill_id : e \in evs } \ { NONE }
    IN  /\ evs # {}
        /\ row.calls = Cardinality(evs)
        /\ row.projects = Cardinality({ e.project_path : e \in evs })
        /\ \E e \in evs : e.ts_ms = row.last_ts_ms
        /\ \A e \in evs : e.ts_ms <= row.last_ts_ms
        /\ linked = {} => row.tools = 1
        /\ \A id \in linked :
               /\ (\E m \in skills : m.id = id) =>
                      \E m \in skills :
                          m.id = id /\ row.tools = Cardinality(m.targets)
               /\ ~(\E m \in skills : m.id = id) => row.tools = 0

\* C26 as stated: the leaderboard has one row for each skill key among the
\* selected events, and each row is the aggregate of the events of its key.
C26_OneRowPerKey ==
    result.op = "leaderboard" =>
        /\ { result.rows[i].skill_id : i \in DOMAIN result.rows } =
               { e.skill_key : e \in Selected }
        /\ Len(result.rows) = Cardinality({ e.skill_key : e \in Selected })
        /\ \A i \in DOMAIN result.rows : AggregateOf(result.rows[i])

\* C26 amended: the leaderboard has one row for each of the first limit
\* skill keys among the selected events (none for a limit below 1, all when
\* there are no more than limit), and each row is the aggregate of the
\* events of its key.
C26_OneRowPerKeyUpToLimit ==
    result.op = "leaderboard" =>
        LET keys == { e.skill_key : e \in Selected }
            listed == { result.rows[i].skill_id : i \in DOMAIN result.rows }
            most == IF result.limit < 0 THEN 0 ELSE result.limit
        IN  /\ listed \subseteq keys
            /\ Cardinality(listed) = Len(result.rows)
            /\ Len(result.rows) =
                   IF Cardinality(keys) < most THEN Cardinality(keys) ELSE most
            /\ \A i \in DOMAIN result.rows : AggregateOf(result.rows[i])
            /\ \A k \in keys \ listed, i \in DOMAIN result.rows :
                   \/ result.rows[i].calls > Cardinality(SelectedOf(k))
                   \/ /\ result.rows[i].calls = Cardinality(SelectedOf(k))
                      /\ \A e \in SelectedOf(k) :
                             e.ts_ms <= result.rows[i].last_ts_ms

\* The leaderboard lists a key without a managed skill with 1 tool, and a
\* key of the managed skill, called twice from two projects, with the 2
\* tools the skill is synced to.
C26_Witness ==
    /\ result.op = "leaderboard"
    /\ result.limit = 50
    /\ \E i \in DOMAIN result.rows, j \in DOMAIN result.rows :
           /\ result.rows[i].skill_id = << "brainstorming" >>
           /\ result.rows[i].tools = 1
           /\ result.rows[j].skill_id = << "s1" >>
           /\ result.rows[j].calls = 2
           /\ result.rows[j].projects = 2
           /\ result.rows[j].tools = 2

\* ------------------------------------------------------------------- C27
\* The regular files under the session root whose name starts with rollout-
\* and ends with .jsonl.
RolloutNamed ==
    (DOMAIN files) \cap { "2026/01/27/rollout-a.jsonl",
                          "2026/01/28/rollout-b.jsonl", "2026-x/rollout-f.jsonl",
                          "locked/rollout-e.jsonl", "rollout-top.jsonl" }

\* seq lists its members without repetition and in the order of order.
InOrder(seq, order) ==
    \A i \in DOMAIN seq, j \in DOMAIN seq :
        i < j => \E m \in DOMAIN order, n \in DOMAIN order :
                     m < n /\ order[m] = seq[i] /\ order[n] = seq[j]

\* C27 as stated: log discovery returns exactly the regular files at any
\* depth under the session root whose name starts with rollout- and ends
\* with .jsonl, without duplicates and in ascending lexicographic order of
\* the full path (the path text, byte by byte); a missing root gives an
\* empty result and Scan returns zero statistics.
C27_DiscoveryExact ==
    /\ result.op = "discover" =>
           /\ { result.rollout_logs[i] : i \in DOMAIN result.rollout_logs }
                  = IF SessionsRoot \in unopenable THEN {} ELSE RolloutNamed
           /\ InOrder(result.rollout_logs,
                      << "2026-x/rollout-f.jsonl", "2026/01/27/rollout-a.jsonl",
                         "2026/01/28/rollout-b.jsonl", "locked/rollout-e.jsonl",
                         "rollout-top.jsonl" >>)
    /\ result.op = "scan" /\ SessionsRoot \in unopenable =>
           result.ok /\ result.stats = ZeroStats

\* The files of RolloutNamed the walk reaches: those no directory above
\* which is missing or unreadable.
Walked ==
    { f \in RolloutNamed :
        /\ SessionsRoot \notin unopenable
        /\ f = "locked/rollout-e.jsonl" => "locked" \notin unopenable }

\* C27 as the code has it: log discovery returns exactly the rollout-named
\* regular files that the walk reaches (entries under a directory that
\* cannot be read are skipped without an error), without duplicates and in
\* ascending order of the path compared component by component; Scan reads
\* exactly these logs, and with a missing root it returns zero statistics.
C27_DiscoveryWalked ==
    /\ result.op = "discover" =>
           /\ { result.rollout_logs[i] : i \in DOMAIN result.rollout_logs }
                  = Walked
           /\ InOrder(result.rollout_logs,
                      << "2026/01/27/rollout-a.jsonl",
                         "2026/01/28/rollout-b.jsonl", "2026-x/rollout-f.jsonl",
                         "locked/rollout-e.jsonl", "rollout-top.jsonl" >>)
    /\ result.op = "scan" =>
           /\ result.ok
           /\ result.stats.scanned_files = Cardinality(Walked)
           /\ { e.log_path : e \in events } = Walked
           /\ DOMAIN cursors = Walked
           /\ SessionsRoot \in unopenable => result.stats = ZeroStats

\* A discovery that returned three logs in a tree that also holds a rollout
\* log under an unreadable directory and a file with another suffix.
C27_Witness ==
    /\ result.op = "discover"
    /\ Len(result.rollout_logs) >= 3
    /\ "2026-x/rollout-f.jsonl" \in Walked
    /\ "locked/rollout-e.jsonl" \in RolloutNamed \ Walked
    /\ "2026/01/27/rollout-c.json" \in DOMAIN files

\* ------------------------------------------------------------------- C28
\* C28: an event is removed only by a retention cleanup or a clear. A scan
\* or a backfill leaves every event that existed in the store, unchanged
\* (the events after it are a superset of those before); deleting a managed
\* skill removes no event and changes nothing in one but its
\* managed_skill_id, which becomes null on the events of that skill.
C28_EventsOnlyRemovedByRetentionOrClear ==
    [][ /\ result'.op \notin { "retention", "clear", "delete_skill" } =>
               events \subseteq events'
        /\ result'.op = "delete_skill" =>
               /\ Cardinality(events') = Cardinality(events)
               /\ \A e \in events :
                      \/ e \in events'
                      \/ /\ e.managed_skill_id \notin { s.id : s \in skills' }
                         /\ [e EXCEPT !.managed_skill_id = NONE] \in events'
      ]_vars

\* A managed skill was deleted while the store held an event linked to it:
\* the skill is gone, the event is there without its link.
C28_Witness ==
    /\ result.op = "delete_skill"
    /\ skills = {}
    /\ \E e \in events : e.managed_skill_id = NONE /\ e.skill_key = << "s1" >>

UnderDays(days) == { l \in DOMAIN files : DayOf(l) \in days }

\* C30: a backfill over safe day paths takes exactly the logs under the
\* selected day directories and reads each of them again from its first
\* line, whatever its cursor was: processed_lines is the total number of
\* lines of the selected logs and each of them ends with its cursor at its
\* last line. The cursors and the events of every other log are unchanged.
C30_BackfillRereadsSelectedOnly ==
    [][ result'.op = "backfill" /\ result'.ok =>
            LET selected == UnderDays(result'.days)
                lines(l) == IF l \in selected THEN Len(files[l]) ELSE 0
            IN  /\ result'.logs = selected
                /\ result'.stats.scanned_files = Cardinality(selected)
                /\ result'.stats.processed_lines
                       = lines(LogOrder[1]) + lines(LogOrder[2])
                /\ \A l \in selected :
                       l \in DOMAIN cursors' /\ cursors'[l] = Len(files[l])
                /\ \A l \in Logs \ selected :
                       /\ l \in DOMAIN cursors' <=> l \in DOMAIN cursors
                       /\ l \in DOMAIN cursors => cursors'[l] = cursors[l]
                /\ { e \in events' : e.log_path \notin selected }
                       = { e \in events : e.log_path \notin selected }
      ]_vars

\* A backfill of one day has read again a log that an earlier scan had read
\* to its end, next to a log of another day with lines it has not read.
C30_Witness ==
    /\ result.op = "backfill"
    /\ result.ok
    /\ result.logs = { LogOrder[1] }
    /\ result.stats.processed_lines >= 1
    /\ result.stats.duplicate_events >= 1
    /\ LogOrder[2] \in DOMAIN files
    /\ files[LogOrder[2]] # << >>
    /\ LogOrder[2] \notin DOMAIN cursors

\* ------------------------------------------------------------------- C31
\* C31: a scan of a log that has fewer lines than its stored cursor (it was
\* truncated or replaced) processes no line of it, creates no event for it
\* and leaves its cursor at the stale value. No scan creates an event for a
\* line numbered at or below the stored cursor, whatever that line holds
\* now, and no scan lowers a cursor: content written at such line numbers
\* is never ingested by scans, only lines numbered above the cursor are.
C31_ShrunkLogNotReread ==
    [][ result'.op = "scan" =>
            /\ \A log \in (DOMAIN files) \ unopenable :
                   /\ \A e \in events' \ events :
                          e.log_path = log => e.log_line > CursorOrZero(log)
                   /\ cursors'[log] >= CursorOrZero(log)
                   /\ CursorOrZero(log) > Len(files[log]) =>
                          /\ cursors'[log] = cursors[log]
                          /\ \A e \in events' \ events : e.log_path # log
            /\ result'.stats.processed_lines =
                   SumOver((DOMAIN files) \ unopenable,
                           [log \in DOMAIN files |->
                               Max(0, Len(files[log]) - CursorOrZero(log))])
      ]_vars

\* A scan has read a log whose cursor is beyond its end: the log holds a
\* recognised use-skill call below the cursor and the store has no event for
\* it, while the scan created an event for the other log.
C31_Witness ==
    /\ result.op = "scan"
    /\ LogOrder[1] \notin unopenable
    /\ CursorOrZero(LogOrder[1]) > Len(files[LogOrder[1]])
    /\ RecognisedIn(LogOrder[1], 1, 1) = { 1 }
    /\ \A e \in events : e.log_path # LogOrder[1]
    /\ result.stats.new_events >= 1

\* ------------------------------------------------------------------- C32
\* C32: two scans that overlap on a log race on its cursor, read first and
\* written later, and the last writer wins. The cursor write that ends a log
\* stores the last line its own scan visited, whatever the store holds by
\* then; a stored cursor goes down only by such a write of a scan that had
\* read the cursor before the higher value was stored (C32_Witness is the
\* interleaving in which the cursor ends lower than a value the other scan
\* had persisted).
C32_LastWriterWins ==
    [][ /\ \A w \in Workers :
               inflight[w].pc = "upsert" /\ inflight'[w] # inflight[w] =>
                   cursors'[inflight[w].rollout_logs[inflight[w].i]]
                       = inflight[w].last_line
        /\ \A log \in DOMAIN cursors :
               cursors'[log] < cursors[log] =>
                   \E w \in Workers :
                       /\ inflight[w].pc = "upsert"
                       /\ inflight'[w] # inflight[w]
                       /\ inflight[w].rollout_logs[inflight[w].i] = log
                       /\ inflight[w].cursor < cursors[log]
                       /\ inflight[w].last_line < cursors[log]
      ]_vars

\* Both scans have returned Ok over a store that had no cursor. One of them
\* read both lines of the first log, so it stored the cursor 2; the cursor
\* is 1, the last line the other one visited before the log grew.
C32_Witness ==
    /\ origin.cursors = [l \in {} |-> 0]
    /\ \A w \in Workers : /\ inflight[w].pc = "done"
                          /\ inflight[w].op = "scan"
                          /\ inflight[w].ok
    /\ files[LogOrder[2]] = << >>
    /\ Len(files[LogOrder[1]]) = 2
    /\ \E w \in Workers : inflight[w].stats.processed_lines = 2
    /\ cursors[LogOrder[1]] = 1

\* ------------------------------------------------------------------ C33
\* A scan that a failing store statement stopped.
Interrupted(st) == st.pc = "done" /\ ~st.ok /\ st.op = "scan"

\* The scan primitive run to its end by a later scan over the store as the
\* interrupted scan left it, and by the interrupted scan itself had no
\* statement failed.
LaterScan(st) ==
    scan_codex_rollout_logs(events, cursors,
                            [OptsOf(st) EXCEPT !.now_ms = st.now_ms + 1],
                            collect_rollout_logs)

UninterruptedScan(st) ==
    scan_codex_rollout_logs(origin.events, origin.cursors, OptsOf(st),
                            collect_rollout_logs)

\* The events the interrupted scan inserted for the log it stopped in.
InsertedBeforeFault(st) ==
    IF st.i = 0 THEN {}
    ELSE { e \in events \ origin.events : e.log_path = st.rollout_logs[st.i] }

\* The cursor of a log is written after the inserts of all its new lines,
\* and a scan stopped in a log leaves the cursor of that log as it found it.
CursorWrittenLast ==
    \A w \in Workers :
        LET st == inflight[w]
        IN  /\ st.pc = "upsert" /\ st.op = "scan" =>
                   \A n \in RecognisedIn(st.rollout_logs[st.i], st.cursor + 1,
                                         Len(files[st.rollout_logs[st.i]])) :
                       HasEvent(events, st.rollout_logs[st.i], n)
            /\ Interrupted(st) /\ st.i > 0 =>
                   CursorOrZero(st.rollout_logs[st.i])
                       = OriginCursor(st.rollout_logs[st.i])

\* C33 as stated: the cursor of a log is persisted only after the inserts
\* for all its new lines; a scan interrupted in a log leaves that log's
\* cursor at its value before the scan, and a later successful scan ends
\* with the same event set as the uninterrupted scan would have, the lines
\* inserted before the interruption reported as duplicate_events.
C33_RescanSameEvents ==
    /\ CursorWrittenLast
    /\ \A w \in Workers :
           Interrupted(inflight[w]) =>
               /\ LaterScan(inflight[w]).events
                      = UninterruptedScan(inflight[w]).events
               /\ LaterScan(inflight[w]).stats.duplicate_events
                      = Cardinality(InsertedBeforeFault(inflight[w]))

\* C33 amended: as above, the later scan ending with an event for exactly
\* the lines the uninterrupted scan would have one for, none lost and none
\* doubled, equal in every field except created_at_ms and, for a line
\* without a readable timestamp, ts_ms, which carry the clock of the scan
\* that inserted the row.
C33_RescanSameEventsUpToInsertTime ==
    /\ CursorWrittenLast
    /\ \A w \in Workers :
           Interrupted(inflight[w]) =>
               /\ { WithoutInsertTime(e) : e \in LaterScan(inflight[w]).events }
                      = { WithoutInsertTime(e) :
                            e \in UninterruptedScan(inflight[w]).events }
               /\ Cardinality(LaterScan(inflight[w]).events)
                      = Cardinality(UninterruptedScan(inflight[w]).events)
               /\ LaterScan(inflight[w]).stats.duplicate_events
                      = Cardinality(InsertedBeforeFault(inflight[w]))
               /\ LaterScan(inflight[w]).stats.new_events
                      = Cardinality(LaterScan(inflight[w]).events \ events)

\* A scan of a log of two lines was stopped at the insert of the second:
\* the event of the first line is stored, the log has no cursor.
C33_Witness ==
    \E w \in Workers :
        /\ Interrupted(inflight[w])
        /\ inflight[w].i = 1
        /\ origin.events = {}
        /\ Len(files[inflight[w].rollout_logs[1]]) = 2
        /\ HasEvent(events, inflight[w].rollout_logs[1], 1)
        /\ ~HasEvent(events, inflight[w].rollout_logs[1], 2)
        /\ inflight[w].rollout_logs[1] \notin DOMAIN cursors

\* ------------------------------------------------------------------ C34
\* C34: after a scan of a log that could be opened, with n lines and a
\* cursor c <= n before the scan, the store holds an event keyed (codex,
\* log_path, i), under the canonical key of the line, for every line i in
\* c+1..n that parses as a use-skill call whose key canonicalizes under the
\* skills root (whether or not a managed skill has that name), and the scan
\* created no event for any other line; the cursor then covers no such line
\* without an event.
C34_NewLinesIngested ==
    [][ result'.op = "scan" =>
            /\ \A log \in (DOMAIN files) \ unopenable :
                   CursorOrZero(log) <= Len(files[log]) =>
                       /\ cursors'[log] = Len(files[log])
                       /\ \A i \in RecognisedIn(log, CursorOrZero(log) + 1,
                                                Len(files[log])) :
                              \E e \in events' :
                                  /\ e.tool = "codex"
                                  /\ e.log_path = log
                                  /\ e.log_line = i
                                  /\ e.skill_key =
                                         canonicalize_codex_skill_key(
                                             parse_rollout_line_for_use_skill(
                                                 files[log][i]).skill_key).key
            /\ \A e \in events' \ events :
                   /\ e.tool = "codex"
                   /\ e.log_path \in (DOMAIN files) \ unopenable
                   /\ e.log_line \in RecognisedIn(e.log_path,
                                                  CursorOrZero(e.log_path) + 1,
                                                  Len(files[e.log_path]))
      ]_vars

\* A scan after the managed skill was deleted has stored the event of a
\* use-skill line, without a link to a managed skill, and none for the
\* line of the same log that names no installed skill.
C34_Witness ==
    /\ result.op = "scan"
    /\ skills = {}
    /\ result.stats.new_events = 1
    /\ result.stats.skipped_skill_not_found = 1
    /\ \E log \in DOMAIN files :
           /\ Len(files[log]) = 2
           /\ cursors[log] = 2
           /\ Cardinality(EventsOf(events, log)) = 1
           /\ \A e \in EventsOf(events, log) : e.managed_skill_id = NONE

\* ------------------------------------------------------------------ C35
\* C35: the counters a scan or a backfill returns satisfy matched_use_skill
\* = new_events + duplicate_events + skipped_skill_not_found and
\* matched_use_skill <= processed_lines, and new_events is the number of
\* events the operation added to the store (it removed none).
C35_CounterIdentities ==
    [][ result'.op \in { "scan", "backfill" } /\ result'.ok =>
            /\ result'.stats.matched_use_skill =
                   result'.stats.new_events + result'.stats.duplicate_events
                       + result'.stats.skipped_skill_not_found
            /\ result'.stats.matched_use_skill <= result'.stats.processed_lines
            /\ result'.stats.new_events
                   = Cardinality(events') - Cardinality(events)
            /\ result'.stats.new_events = Cardinality(events' \ events)
            /\ events \subseteq events'
      ]_vars

\* A backfill has read two lines again: the second is a use-skill call on a
\* skill that is not installed, the first one whose event was stored, and
\* the store holds that one event.
C35_Witness ==
    /\ result.op = "backfill"
    /\ result.ok
    /\ result.stats.processed_lines = 2
    /\ result.stats.matched_use_skill = 2
    /\ result.stats.new_events = 0
    /\ result.stats.duplicate_events = 1
    /\ result.stats.skipped_skill_not_found = 1
    /\ Cardinality(events) = 1

\* ------------------------------------------------------------------ C36
\* C36: when a clear and a scan that overlapped it have both returned Ok, no
\* event exists for a line that was in a log when the clear deleted the
\* events (the logs do not change while the two run, so every line was).
C36_ClearedNotResurrected ==
    (\E s \in Workers, c \in Workers :
        /\ inflight[s].pc = "done" /\ inflight[s].ok /\ inflight[s].op = "scan"
        /\ inflight[c].pc = "done" /\ inflight[c].ok /\ inflight[c].op = "clear")
    => \A e \in events : e.tool # "codex"

\* ------------------------------------------------------------------ C37
\* C37: a clear that a failing store statement stopped, no other command
\* running, leaves every discovered log with the events it had or with a
\* cursor that covers all its lines.
C37_FailedClearCovered ==
    \A c \in Workers :
        (/\ inflight[c].pc = "done" /\ ~inflight[c].ok /\ inflight[c].op = "clear"
         /\ \A w \in Workers \ { c } : inflight[w].pc = "idle")
        => \A log \in DOMAIN files :
               \/ UntouchedEvents(log)
               \/ CursorOrZero(log) >= Len(files[log])

\* ------------------------------------------------------------------ C38
\* The store after a scan, and after a backfill of the day directory of one
\* log, that follows the step.
ScanAfterStep ==
    scan_codex_rollout_logs(
        events', cursors',
        [now_ms |-> result'.now_ms, project_mode |-> "GitRootOrWorkdir"],
        collect_rollout_logs)

BackfillAfterStep(log) ==
    scan_codex_rollout_logs(
        events',
        ResetCursors(cursors', collect_rollout_logs_for_days({ DayOf(log) }), 1),
        [now_ms |-> result'.now_ms, project_mode |-> "GitRootOrWorkdir"],
        collect_rollout_logs_for_days({ DayOf(log) }))

\* C38: a retention cleanup leaves every cursor as it was and deletes only
\* events of the tool codex. A scan that follows it over the unchanged logs
\* creates no event again for a removed event whose line its cursor covers
\* (with every log read to its end, that scan reports new_events = 0); a
\* backfill of the day directory of its log does create it again, as long
\* as the log still holds the use-skill line.
C38_RetentionKeepsCursors ==
    [][ result'.op = "retention" =>
            /\ cursors' = cursors
            /\ \A e \in events \ events' : e.tool = "codex"
            /\ \A e \in events \ events' :
                   e.log_line <= CursorOrZero(e.log_path) =>
                       \A f \in ScanAfterStep.events : ~SameKey(f, e)
            /\ (\A log \in DOMAIN files : CursorOrZero(log) = Len(files[log]))
                   => ScanAfterStep.stats.new_events = 0
            /\ \A e \in events \ events' :
                   (/\ e.log_path \in DOMAIN files
                    /\ e.log_line \in RecognisedIn(e.log_path, 1,
                                                   Len(files[e.log_path])))
                   => \E f \in BackfillAfterStep(e.log_path).events :
                          SameKey(f, e)
      ]_vars

\* A cleanup has deleted the event of the first line of a log that was read
\* to its end: the line is a recognised use-skill call, the cursor is
\* where it was and the store has no event for the line.
C38_Witness ==
    /\ result.op = "retention"
    /\ result.deleted >= 1
    /\ \E log \in DOMAIN files :
           /\ RecognisedIn(log, 1, 1) = { 1 }
           /\ CursorOrZero(log) = Len(files[log])
           /\ ~HasEvent(events, log, 1)
    /\ \E e \in events : e.tool # "codex"

\* ------------------------------------------------------------------ C39
\* C39: saving settings that switch analytics from disabled to enabled sets
\* the cursor of every discoverable log to its number of lines, so that the
\* scan that follows creates no event for a line that was there; saving
\* settings without that transition leaves the cursors as they were.
C39_EnableSkipsHistory ==
    [][ result'.op = "set_config" =>
            IF ~config.enabled /\ config'.enabled
            THEN /\ DOMAIN cursors' = DOMAIN files
                 /\ \A log \in DOMAIN files : cursors'[log] = Len(files[log])
                 /\ ScanAfterStep.stats.new_events = 0
            ELSE cursors' = cursors
      ]_vars

\* ------------------------------------------------------------------ C40
\* The project rows agree with a leaderboard row: their calls add up to its
\* calls, there are as many of them as its projects, and the latest of
\* their last_ts_ms is its last_ts_ms.
ProjectsAgree(projects, row) ==
    /\ SumOver(DOMAIN projects, [i \in DOMAIN projects |-> projects[i].calls])
           = row.calls
    /\ Len(projects) = row.projects
    /\ \E i \in DOMAIN projects : projects[i].last_ts_ms = row.last_ts_ms
    /\ \A i \in DOMAIN projects : projects[i].last_ts_ms <= row.last_ts_ms

\* C40: over the same events, for every tool, skill key and since value,
\* the per-project rows of a key agree with the leaderboard row of the key
\* (given that row is not cut off by the limit): every row a leaderboard
\* query returned is matched by each answer of the per-project query for
\* its key, and every non-empty per-project answer is matched by the row of
\* its key in each uncut leaderboard.
C40_QueriesAgree ==
    /\ result.op = "leaderboard" =>
           \A i \in DOMAIN result.rows :
               \A projects \in get_skill_usage_by_project(
                                   events, result.tool, result.rows[i].skill_id,
                                   result.since_ts_ms) :
                   ProjectsAgree(projects, result.rows[i])
    /\ result.op = "by_project" /\ result.rows # << >> =>
           \A board \in get_skill_usage_leaderboard(
                            events, skills, result.tool, result.since_ts_ms,
                            MaxEvents + 1) :
               /\ \E i \in DOMAIN board : board[i].skill_id = result.skill_key
               /\ \A i \in DOMAIN board :
                      board[i].skill_id = result.skill_key =>
                          ProjectsAgree(result.rows, board[i])

\* A leaderboard since 200 lists a key called twice from two projects,
\* while an earlier call of the key is left out by both queries.
C40_Witness ==
    /\ result.op = "leaderboard"
    /\ result.since_ts_ms = Some(200)
    /\ \E i \in DOMAIN result.rows :
           /\ result.rows[i].calls = 2
           /\ result.rows[i].projects = 2
           /\ \E e \in events :
                  /\ e.tool = result.tool
                  /\ e.skill_key = result.rows[i].skill_id
                  /\ e.ts_ms < 200
           /\ \A projects \in get_skill_usage_by_project(
                                  events, result.tool, result.rows[i].skill_id,
                                  result.since_ts_ms) :
                  Len(projects) = 2

====
